---------------------------- MODULE Spec2Model ----------------------------
(***************************************************************************)
(* A model of V2Ray-GitHunter.  First its link classification (src/src/   *)
(* proxy_filter.py): the URL pattern matcher, the link categorizer and the *)
(* link filter/ranker.  URLs are strings; the string operations the code   *)
(* uses (lower, in, endswith, split, re.match) are computed character by   *)
(* character.  Then, each with a specification of its own: the file cache  *)
(* of the searcher and the fetcher (src/src/github_searcher.py, src/src/   *)
(* source_fetcher.py), the fetcher's worker pool, the link extractor       *)
(* (src/src/link_extractor.py), and the run of main() through its stages   *)
(* (src/main.py, src/src/output_generator.py).                             *)
(***************************************************************************)
EXTENDS Integers, Sequences, FiniteSets, TLC

VARIABLES
    pc,             \* where the caller of the ProxyFilter is
    url,            \* the argument of the last categorize_link call
    result,         \* the record categorize_link returned
    links,          \* the argument of filter_links / get_high_priority_links
    categories,     \* the bucket map filter_links returned
    high_priority,  \* the list get_high_priority_links returned
    now,            \* time.time(), in hours
    cache_dir,      \* the cache directory: file name -> file
    call,           \* the last cache-using call and what it did
    runs,           \* the runs sharing the cache directory, step by step
    pool_pc,        \* where fetch_and_save_all_sources is
    repos,          \* its argument
    max_workers,    \* the fetcher's worker count
    tasks,          \* the task submitted for each repository
    completed,      \* the tasks in the order they finished
    collect_at,     \* how many had finished when as_completed began
    early,          \* those, as far as not yet yielded
    waiting,        \* the waiter's finished_futures
    results,        \* the list being returned
    sources_dir,    \* the sources directory: file path -> text
    extract_pc,     \* where the caller of the LinkExtractor is
    source_file,    \* the file extract_links_from_source_file was given
    extracted,      \* what it returned
    main_pc,        \* where main() is
    github_token,   \* the environment's GITHUB_TOKEN
    exit_status,    \* the status the process ended with
    did,            \* the kinds of work done so far
    repositories,   \* what search_repositories returned
    repos_with_sources, \* what fetch_and_save_all_sources returned
    repos_with_links,   \* what extract_links_from_all_sources returned
    links_dir,      \* the links directory: file path -> the links written
    output_data     \* what generate_all_outputs made: the report, the files

filterVars == <<pc, url, result, links, categories, high_priority>>

cacheVars == <<now, cache_dir, call, runs>>

poolSteps == <<pool_pc, repos, max_workers, tasks, completed, collect_at, early,
               waiting, results>>

poolVars == <<poolSteps, sources_dir>>

extractVars == <<extract_pc, source_file, extracted>>

mainVars == <<main_pc, github_token, exit_status, did, repositories,
              repos_with_sources, repos_with_links, links_dir, output_data>>

vars == <<filterVars, cacheVars, poolVars, extractVars, mainVars>>

outsideFilter == <<cacheVars, poolVars, extractVars, mainVars>>

outsideCache == <<filterVars, poolVars, extractVars, mainVars>>

\* The pool works on the cache.
outsidePool == <<filterVars, extractVars, mainVars>>

outsideExtract == <<filterVars, cacheVars, poolVars, mainVars>>

\* main() fills the sources directory.
outsideMain == <<filterVars, cacheVars, poolSteps, extractVars>>

\* A component no specification is exercising holds these values.
FilterUnused ==
    /\ pc = "unused"
    /\ url = ""
    /\ result = << >>
    /\ links = << >>
    /\ categories = << >>
    /\ high_priority = << >>

CacheUnused ==
    /\ now = 0
    /\ cache_dir = << >>
    /\ call = << >>
    /\ runs = << >>

PoolStepsUnused ==
    /\ pool_pc = "unused"
    /\ repos = << >>
    /\ max_workers = 0
    /\ tasks = << >>
    /\ completed = << >>
    /\ collect_at = 0
    /\ early = {}
    /\ waiting = << >>
    /\ results = << >>

PoolUnused == PoolStepsUnused /\ sources_dir = << >>

ExtractUnused ==
    /\ extract_pc = "unused"
    /\ source_file = << >>
    /\ extracted = << >>

MainUnused ==
    /\ main_pc = "unused"
    /\ github_token = << >>
    /\ exit_status = 0
    /\ did = {}
    /\ repositories = << >>
    /\ repos_with_sources = << >>
    /\ repos_with_links = << >>
    /\ links_dir = << >>
    /\ output_data = << >>

OutsideFilterUnused == CacheUnused /\ PoolUnused /\ ExtractUnused /\ MainUnused

OutsideCacheUnused == FilterUnused /\ PoolUnused /\ ExtractUnused /\ MainUnused

OutsidePoolUnused == FilterUnused /\ ExtractUnused /\ MainUnused

OutsideExtractUnused == FilterUnused /\ CacheUnused /\ PoolUnused /\ MainUnused

OutsideMainUnused == FilterUnused /\ CacheUnused /\ PoolStepsUnused /\ ExtractUnused

---------------------------------------------------------------------------
(* Strings.                                                                *)

CharAt(s, i) == SubSeq(s, i, i)

UpperChars == "ABCDEFGHIJKLMNOPQRSTUVWXYZ"
LowerChars == "abcdefghijklmnopqrstuvwxyz"

UpperSet == { CharAt(UpperChars, i) : i \in 1..Len(UpperChars) }

LowerMap ==
    [ c \in UpperSet |->
        CharAt(LowerChars, CHOOSE i \in 1..Len(UpperChars) : CharAt(UpperChars, i) = c) ]

\* str.lower() on one ASCII character.
LowerChar(c) == IF c \in UpperSet THEN LowerMap[c] ELSE c

\* str.lower(): every character mapped, the length kept.
RECURSIVE Lower(_)
Lower(s) ==
    IF s = "" THEN ""
    ELSE IF Len(s) = 1 THEN LowerChar(s)
    ELSE LET half == Len(s) \div 2 IN
         Lower(SubSeq(s, 1, half)) \o Lower(SubSeq(s, half + 1, Len(s)))

\* The least member of a non-empty set of numbers.
Least(S) == CHOOSE k \in S : \A j \in S : k <= j

\* Python's `p in s` on strings.
Contains(s, p) ==
    \E i \in 1..(Len(s) - Len(p) + 1) : SubSeq(s, i, i + Len(p) - 1) = p

\* str.endswith.
EndsWith(s, p) ==
    /\ Len(p) <= Len(s)
    /\ SubSeq(s, Len(s) - Len(p) + 1, Len(s)) = p

\* LastSegment with the split forgotten: the keywords are looked for in the
\* whole URL.
WholeText(s) == s

\* s.split('/')[-1]: the text after the last '/', the whole string without one.
RECURSIVE LastSegmentFrom(_, _)
LastSegmentFrom(s, i) ==
    IF i = 0 THEN s
    ELSE IF CharAt(s, i) = "/" THEN SubSeq(s, i + 1, Len(s))
    ELSE LastSegmentFrom(s, i - 1)

LastSegment(s) == LastSegmentFrom(s, Len(s))

---------------------------------------------------------------------------
(* Regular expressions, as re.match applies the patterns of the table: a   *)
(* pattern is a sequence of items, "any" for .* (any run of characters but *)
(* the newline), "lit" for literal text, "end" for $ (the end of the       *)
(* string, or just before a newline that ends it).                         *)

AnyRun == [kind |-> "any", text |-> ""]
Lit(t) == [kind |-> "lit", text |-> t]
EndOfText == [kind |-> "end", text |-> ""]

\* How far a run of .* that starts at pos can reach: the place of the first
\* newline at or after pos, one past the end of s without one.
RunLimit(s, pos) ==
    IF pos > Len(s) THEN pos
    ELSE Least({ k \in pos..Len(s) : CharAt(s, k) = "\n" } \cup {Len(s) + 1})

RECURSIVE MatchFrom(_, _, _, _)
MatchFrom(pattern, k, s, pos) ==
    IF k > Len(pattern) THEN TRUE
    ELSE LET item == pattern[k] IN
         CASE item.kind = "any" ->
                \E next \in pos..RunLimit(s, pos) : MatchFrom(pattern, k + 1, s, next)
           [] item.kind = "lit" ->
                /\ pos + Len(item.text) - 1 <= Len(s)
                /\ SubSeq(s, pos, pos + Len(item.text) - 1) = item.text
                /\ MatchFrom(pattern, k + 1, s, pos + Len(item.text))
           [] item.kind = "end" ->
                /\ \/ pos = Len(s) + 1
                   \/ pos = Len(s) /\ CharAt(s, pos) = "\n"
                /\ MatchFrom(pattern, k + 1, s, pos)

\* re.match(pattern, s): anchored at the start of s.
ReMatch(pattern, s) == MatchFrom(pattern, 1, s, 1)

---------------------------------------------------------------------------
(* ProxyFilter.__init__: the tables.                                       *)

proxy_protocols ==
    << [protocol |-> "ss",          patterns |-> <<"ss://">>],
       [protocol |-> "shadowsocks", patterns |-> <<"ss://", "shadowsocks">>],
       [protocol |-> "vless",       patterns |-> <<"vless://">>],
       [protocol |-> "vmess",       patterns |-> <<"vmess://">>],
       [protocol |-> "trojan",      patterns |-> <<"trojan://">>],
       [protocol |-> "hy2",         patterns |-> <<"hy2://", "hysteria2://">>],
       [protocol |-> "hysteria",    patterns |-> <<"hysteria://">>],
       [protocol |-> "v2ray",       patterns |-> <<"v2ray://">>] >>

merge_keywords ==
    << "all", "merge", "merged", "subscription", "sub", "collection",
       "aggregate", "combined", "complete", "total", "full" >>

config_extensions == << ".txt", ".sub", ".conf", ".yaml", ".yml", ".json" >>

\* r'.*<text>.*\.txt$'
TxtPattern(text) == << AnyRun, Lit(text), AnyRun, Lit(".txt"), EndOfText >>

proxy_url_patterns ==
    << TxtPattern("/sub/"),
       TxtPattern("/config"),
       TxtPattern("/v2ray"),
       TxtPattern("/ss"),
       TxtPattern("/vmess"),
       TxtPattern("/vless"),
       TxtPattern("/trojan"),
       TxtPattern("/hy2"),
       TxtPattern("/shadowsocks"),
       TxtPattern("/all"),
       TxtPattern("/merge"),
       TxtPattern("/merged"),
       TxtPattern("/subscription"),
       TxtPattern("/sub_"),
       TxtPattern("All_Configs"),
       TxtPattern("sub_merge") >>

\* The keywords is_config_file looks for in a raw file's name.
config_name_keywords == merge_keywords \o << "config", "proxy", "node", "list" >>

raw_domain == "raw.githubusercontent.com"

---------------------------------------------------------------------------
(* The URL pattern matcher.                                                *)

\* The two loops of is_proxy_protocol_link, from table entry i, pattern j:
\* the first pattern found in the URL returns its entry's key.
RECURSIVE ProtocolLoop(_, _, _)
ProtocolLoop(url_lower, i, j) ==
    IF i > Len(proxy_protocols) THEN [is_proxy |-> FALSE, protocol |-> ""]
    ELSE IF j > Len(proxy_protocols[i].patterns) THEN ProtocolLoop(url_lower, i + 1, 1)
    ELSE IF Contains(url_lower, proxy_protocols[i].patterns[j])
         THEN [is_proxy |-> TRUE, protocol |-> proxy_protocols[i].protocol]
         ELSE ProtocolLoop(url_lower, i, j + 1)

\* is_proxy_protocol_link without the lower().
is_proxy_protocol_link_CaseSensitive(u) == ProtocolLoop(u, 1, 1)

is_proxy_protocol_link(u) == ProtocolLoop(Lower(u), 1, 1)

\* A `for x in table: if test(x): return True` loop, from index i.
RECURSIVE KeywordLoop(_, _, _)
KeywordLoop(text, keywords, i) ==
    IF i > Len(keywords) THEN FALSE
    ELSE IF Contains(text, keywords[i]) THEN TRUE
    ELSE KeywordLoop(text, keywords, i + 1)

RECURSIVE PatternLoop(_, _)
PatternLoop(url_lower, i) ==
    IF i > Len(proxy_url_patterns) THEN FALSE
    ELSE IF ReMatch(proxy_url_patterns[i], url_lower) THEN TRUE
    ELSE PatternLoop(url_lower, i + 1)

\* is_merge_subscription_link without its second loop.
is_merge_subscription_link_KeywordsOnly(u) == KeywordLoop(Lower(u), merge_keywords, 1)

is_merge_subscription_link(u) ==
    LET url_lower == Lower(u) IN
    IF KeywordLoop(url_lower, merge_keywords, 1) THEN TRUE
    ELSE PatternLoop(url_lower, 1)

RECURSIVE ExtensionLoop(_, _)
ExtensionLoop(url_lower, i) ==
    IF i > Len(config_extensions) THEN FALSE
    ELSE IF EndsWith(url_lower, config_extensions[i]) THEN TRUE
    ELSE ExtensionLoop(url_lower, i + 1)

is_config_file(u) ==
    LET url_lower == Lower(u) IN
    IF ExtensionLoop(url_lower, 1) THEN TRUE
    ELSE IF Contains(url_lower, raw_domain)
         THEN KeywordLoop(LastSegment(url_lower), config_name_keywords, 1)
         ELSE FALSE

---------------------------------------------------------------------------
(* The link categorizer.                                                   *)

Categories == << "proxy_protocol", "merge_subscription", "config_file", "raw_file", "other" >>

\* The record categorize_link starts from.
\* NewRecord with a placeholder protocol name in place of ''.
NewRecord_Placeholder(u) ==
    [ url                   |-> u,
      is_proxy_protocol     |-> FALSE,
      protocol_type         |-> "unknown",
      is_merge_subscription |-> FALSE,
      is_config_file        |-> FALSE,
      category              |-> "other" ]

NewRecord(u) ==
    [ url                   |-> u,
      is_proxy_protocol     |-> FALSE,
      protocol_type         |-> "",
      is_merge_subscription |-> FALSE,
      is_config_file        |-> FALSE,
      category              |-> "other" ]

\* The four `if` blocks of categorize_link, each applied to the record the
\* one before it left.
CheckProxy(r, u) ==
    LET found == is_proxy_protocol_link(u) IN
    IF found.is_proxy
    THEN [r EXCEPT !.is_proxy_protocol = TRUE,
                   !.protocol_type = found.protocol,
                   !.category = "proxy_protocol"]
    ELSE r

\* CheckMerge without the `if result['category'] == 'other'` guard.
CheckMergeOverride(r, u) ==
    IF is_merge_subscription_link(u)
    THEN [r EXCEPT !.is_merge_subscription = TRUE, !.category = "merge_subscription"]
    ELSE r

\* CheckMerge setting the flag and leaving the category to the later tests.
CheckMergeFlagOnly(r, u) ==
    IF is_merge_subscription_link(u) THEN [r EXCEPT !.is_merge_subscription = TRUE] ELSE r

CheckMerge(r, u) ==
    IF is_merge_subscription_link(u)
    THEN [r EXCEPT !.is_merge_subscription = TRUE,
                   !.category = IF @ = "other" THEN "merge_subscription" ELSE @]
    ELSE r

CheckConfig(r, u) ==
    IF is_config_file(u)
    THEN [r EXCEPT !.is_config_file = TRUE,
                   !.category = IF @ = "other" THEN "config_file" ELSE @]
    ELSE r

CheckRaw(r, u) ==
    IF Contains(Lower(u), raw_domain)
    THEN [r EXCEPT !.category = IF @ = "other" THEN "raw_file" ELSE @]
    ELSE r

\* categorize_link with its `if` blocks chained as if / elif: the tests
\* after the first that applies are skipped.
categorize_link_FirstMatchOnly(u) ==
    LET r1 == CheckProxy(NewRecord(u), u)
        r2 == IF r1.category # "other" THEN r1 ELSE CheckMerge(r1, u)
        r3 == IF r2.category # "other" THEN r2 ELSE CheckConfig(r2, u)
    IN  IF r3.category # "other" THEN r3 ELSE CheckRaw(r3, u)

categorize_link(u) ==
    CheckRaw(CheckConfig(CheckMerge(CheckProxy(NewRecord(u), u), u), u), u)

---------------------------------------------------------------------------
(* get_domain_from_url: urlparse(url).netloc.lower().                      *)

\* The first place at or after i where s has one of the characters of
\* `stops`, one past the end of s without one.
FindAny(s, stops, i) ==
    IF i > Len(s) THEN i
    ELSE Least({ k \in i..Len(s) : Contains(stops, CharAt(s, k)) } \cup {Len(s) + 1})

\* s without the characters of `dropped`.
RECURSIVE Without(_, _)
Without(s, dropped) ==
    IF s = "" THEN ""
    ELSE IF Len(s) = 1 THEN (IF Contains(dropped, s) THEN "" ELSE s)
    ELSE LET half == Len(s) \div 2 IN
         Without(SubSeq(s, 1, half), dropped) \o Without(SubSeq(s, half + 1, Len(s)), dropped)

\* str.lstrip of the characters of `stripped`.
RECURSIVE LStrip(_, _)
LStrip(s, stripped) ==
    IF s # "" /\ Contains(stripped, CharAt(s, 1))
    THEN LStrip(SubSeq(s, 2, Len(s)), stripped)
    ELSE s

scheme_chars == LowerChars \o UpperChars \o "0123456789+-."

\* urlsplit: leading blanks stripped, tabs and line breaks removed, then the
\* scheme (letters, digits, + - . before the first colon, a letter first),
\* the netloc (after a leading //, up to the first / ? #) and the path (up
\* to the first ? or #).
UrlSplit(u) ==
    LET cleaned  == Without(LStrip(u, " \t\n\r"), "\t\n\r")
        colon    == FindAny(cleaned, ":", 1)
        isScheme == /\ 1 < colon /\ colon <= Len(cleaned)
                    /\ Contains(LowerChars \o UpperChars, CharAt(cleaned, 1))
                    /\ \A k \in 1..(colon - 1) : Contains(scheme_chars, CharAt(cleaned, k))
        rest     == IF isScheme THEN SubSeq(cleaned, colon + 1, Len(cleaned)) ELSE cleaned
        hasNet   == Len(rest) >= 2 /\ SubSeq(rest, 1, 2) = "//"
        netEnd   == FindAny(rest, "/?#", 3)
        after    == IF hasNet THEN SubSeq(rest, netEnd, Len(rest)) ELSE rest
    IN  [ scheme |-> IF isScheme THEN Lower(SubSeq(cleaned, 1, colon - 1)) ELSE "",
          netloc |-> IF hasNet THEN SubSeq(rest, 3, netEnd - 1) ELSE "",
          path   |-> SubSeq(after, 1, FindAny(after, "?#", 1) - 1) ]

get_domain_from_url(u) == Lower(UrlSplit(u).netloc)

---------------------------------------------------------------------------
(* The link filter/ranker.                                                 *)

EmptyCategories == [c \in { Categories[i] : i \in 1..Len(Categories) } |-> << >>]

\* The loop of filter_links from link i: each record is appended to the
\* bucket its category names.
RECURSIVE FilterLoop(_, _, _)
FilterLoop(ls, i, buckets) ==
    IF i > Len(ls) THEN buckets
    ELSE LET categorized == categorize_link(ls[i]) IN
         FilterLoop(ls, i + 1,
                    [buckets EXCEPT ![categorized.category] = Append(@, categorized)])

\* filter_links over the distinct links: a link met before is skipped.
RECURSIVE Distinct(_, _, _)
Distinct(ls, i, kept) ==
    IF i > Len(ls) THEN kept
    ELSE Distinct(ls, i + 1,
                  IF \E k \in 1..Len(kept) : kept[k] = ls[i] THEN kept ELSE Append(kept, ls[i]))

filter_links_Distinct(ls) == FilterLoop(Distinct(ls, 1, << >>), 1, EmptyCategories)

filter_links(ls) == FilterLoop(ls, 1, EmptyCategories)

\* IsHighPriority with the config-file flag taken alone.
IsHighPriorityOrConfig(categorized) ==
    \/ categorized.is_proxy_protocol
    \/ categorized.is_merge_subscription
    \/ categorized.is_config_file

\* The test of get_high_priority_links on one record.
IsHighPriority(categorized) ==
    \/ categorized.is_proxy_protocol
    \/ categorized.is_merge_subscription
    \/ (categorized.is_config_file /\ categorized.is_merge_subscription)

\* Its selection loop, from link i.
RECURSIVE SelectLoop(_, _, _)
SelectLoop(ls, i, selected) ==
    IF i > Len(ls) THEN selected
    ELSE LET categorized == categorize_link(ls[i]) IN
         SelectLoop(ls, i + 1,
                    IF IsHighPriority(categorized) THEN Append(selected, categorized)
                    ELSE selected)

priority_order == << "proxy_protocol", "merge_subscription", "config_file" >>

UnrankedKey == 99

\* The sort key: priority_order.index(category), counted from 0, or 99.
PriorityKey(r) ==
    IF \E i \in 1..Len(priority_order) : priority_order[i] = r.category
    THEN (CHOOSE i \in 1..Len(priority_order) : priority_order[i] = r.category) - 1
    ELSE UnrankedKey

\* InsertSorted placing a record before the records of its own key: the
\* sort turns ties round.
RECURSIVE InsertSortedBeforeTies(_, _)
InsertSortedBeforeTies(sorted, r) ==
    IF sorted = << >> THEN << r >>
    ELSE IF PriorityKey(sorted[Len(sorted)]) < PriorityKey(r) THEN Append(sorted, r)
    ELSE Append(InsertSortedBeforeTies(SubSeq(sorted, 1, Len(sorted) - 1), r),
                sorted[Len(sorted)])

\* list.sort(key=...) is stable: a record goes behind every record already
\* placed whose key is not greater.
RECURSIVE InsertSorted(_, _)
InsertSorted(sorted, r) ==
    IF sorted = << >> THEN << r >>
    ELSE IF PriorityKey(sorted[Len(sorted)]) <= PriorityKey(r) THEN Append(sorted, r)
    ELSE Append(InsertSorted(SubSeq(sorted, 1, Len(sorted) - 1), r), sorted[Len(sorted)])

RECURSIVE SortLoop(_, _, _)
SortLoop(rs, i, sorted) ==
    IF i > Len(rs) THEN sorted ELSE SortLoop(rs, i + 1, InsertSorted(sorted, rs[i]))

SortByPriority(rs) == SortLoop(rs, 1, << >>)

get_high_priority_links(ls) == SortByPriority(SelectLoop(ls, 1, << >>))

---------------------------------------------------------------------------
(* The inputs.                                                             *)

\* A URL is a head, a middle, a name and a tail, so that markers, keywords
\* and extensions meet in every position and order.
UrlHeads ==
    { "", "https://example.com/", "https://raw.githubusercontent.com/u/r/main/",
      "HTTPS://RAW.GitHubUserContent.com/u/", "https://example.com/raw.githubusercontent.com/",
      "www.", "ss://", "vless://", "vmess://", "trojan://", "hy2://", "hysteria2://",
      "hysteria://", "v2ray://", "Trojan://" }

UrlMiddles == { "", "x/", "ss/", "sub/", "trojan://", "shadowsocks/", "a\nb/" }

UrlNames == { "", "readme", "abcd1234", "all_configs", "All_Configs", "config", "node", "merge" }

UrlTails == { "", ".txt", ".YML", ".txt\n", "?ref=list", "/" }

\* Every keyword and every extension, on the mirror and off it.
KeywordNames ==
    { "all", "merge", "merged", "subscription", "sub", "collection", "aggregate",
      "combined", "complete", "total", "full", "config", "proxy", "node", "list" }

ExtensionTails == { ".txt", ".sub", ".conf", ".yaml", ".yml", ".json", ".JSON", ".html" }

PlainHeads == { "https://example.com/", "https://raw.githubusercontent.com/u/r/main/" }

Urls ==
    { h \o m \o n \o t : h \in UrlHeads, m \in UrlMiddles, n \in UrlNames, t \in UrlTails }
      \cup { h \o n \o t : h \in PlainHeads, n \in KeywordNames, t \in { "", ".txt", "/x" } }
      \cup { h \o n \o t : h \in PlainHeads, n \in { "readme", "config" }, t \in ExtensionTails }

\* The URLs of a repository's link list: one for every combination of flags
\* and every category.
LinkPool ==
    { "https://raw.githubusercontent.com/u/r/main/all_configs.txt",
      "https://example.com/readme",
      "vmess://abcd1234",
      "https://example.com/config.txt",
      "https://example.com/a.json",
      "https://raw.githubusercontent.com/u/r/main/x",
      "trojan://h/sub",
      "https://example.com/total" }

MaxLinks == 3

LinkLists == UNION { [1..n -> LinkPool] : n \in 0..MaxLinks }

---------------------------------------------------------------------------
(* The caller: a ProxyFilter holds nothing but its tables, so the state is *)
(* the call made and what it returned.                                     *)

Init ==
    /\ pc = "idle"
    /\ url = ""
    /\ result = NewRecord("")
    /\ links = << >>
    /\ categories = EmptyCategories
    /\ high_priority = << >>
    /\ OutsideFilterUnused

CategorizeLink ==
    /\ pc = "idle"
    /\ \E u \in Urls :
        /\ url' = u
        /\ result' = categorize_link(u)
    /\ pc' = "categorized"
    /\ UNCHANGED <<links, categories, high_priority>>
    /\ UNCHANGED outsideFilter

\* OutputGenerator's use: filter_links, then get_high_priority_links, on the
\* same link list.
FilterLinks ==
    /\ pc = "idle"
    /\ \E ls \in LinkLists :
        /\ links' = ls
        /\ categories' = filter_links(ls)
    /\ pc' = "filtered"
    /\ UNCHANGED <<url, result, high_priority>>
    /\ UNCHANGED outsideFilter

GetHighPriorityLinks ==
    /\ pc = "filtered"
    /\ high_priority' = get_high_priority_links(links)
    /\ pc' = "ranked"
    /\ UNCHANGED <<url, result, links, categories>>
    /\ UNCHANGED outsideFilter

Next == CategorizeLink \/ FilterLinks \/ GetHighPriorityLinks

Spec == Init /\ [][Next]_vars

---------------------------------------------------------------------------
(* What the claims are stated in.                                          *)

Range(f) == { f[i] : i \in DOMAIN f }

\* The sets the specification lists.
CategoryNames == { "proxy_protocol", "merge_subscription", "config_file", "raw_file", "other" }

ProtocolMarkers ==
    { "ss://", "vmess://", "vless://", "trojan://", "hy2://", "hysteria2://",
      "hysteria://", "v2ray://", "shadowsocks" }

ProtocolOrder ==
    << "ss", "shadowsocks", "vless", "vmess", "trojan", "hy2", "hysteria", "v2ray" >>

MergeKeywords ==
    { "all", "merge", "merged", "subscription", "sub", "collection", "aggregate",
      "combined", "complete", "total", "full" }

ConfigExtensions == { ".txt", ".sub", ".conf", ".yaml", ".yml", ".json" }

ConfigNameKeywords == MergeKeywords \cup { "config", "proxy", "node", "list" }

ContainsAny(s, texts) == \E t \in texts : Contains(s, t)

StartsWith(s, p) == Len(p) <= Len(s) /\ SubSeq(s, 1, Len(p)) = p

HasProtocolMarker(u) == ContainsAny(Lower(u), ProtocolMarkers)

HasMergeKeyword(u) == ContainsAny(Lower(u), MergeKeywords)

MatchesPathShape(u) ==
    \E i \in 1..Len(proxy_url_patterns) : ReMatch(proxy_url_patterns[i], Lower(u))

HasConfigExtension(u) == \E e \in ConfigExtensions : EndsWith(Lower(u), e)

\* The URL names the raw-content mirror somewhere, in its host or elsewhere.
NamesRawDomain(u) == Contains(Lower(u), raw_domain)

\* The URL's host is the raw-content mirror.
OnRawDomain(u) == get_domain_from_url(u) = raw_domain

\* The text after the last '/' of s (all of s without one), as the suffix
\* that holds no '/' and has a '/' or nothing before it.
TextAfterLastSlash(s) ==
    LET start == CHOOSE i \in 1..(Len(s) + 1) :
                    /\ i = 1 \/ CharAt(s, i - 1) = "/"
                    /\ \A k \in i..Len(s) : CharAt(s, k) # "/"
    IN  SubSeq(s, start, Len(s))

\* The last segment of the URL's path, the query string and the fragment
\* left out.
LastPathSegment(u) == TextAfterLastSlash(Lower(UrlSplit(u).path))

\* The first applicable category of the priority list.
FirstApplicable(proxy, merge, config, raw) ==
    IF proxy THEN "proxy_protocol"
    ELSE IF merge THEN "merge_subscription"
    ELSE IF config THEN "config_file"
    ELSE IF raw THEN "raw_file"
    ELSE "other"

Categorized == pc = "categorized"

---------------------------------------------------------------------------
(* C1 as stated: the category of categorize_link(u) is the first           *)
(* applicable of proxy_protocol, merge_subscription, config_file, raw_file *)
(* (the URL is on the raw-content mirror domain) and other.  It fails: a   *)
(* URL of another host that names the mirror in its path is a raw_file.    *)
C1_CategoryByHost ==
    Categorized =>
        result.category = FirstApplicable(is_proxy_protocol_link(url).is_proxy,
                                          is_merge_subscription_link(url),
                                          is_config_file(url),
                                          OnRawDomain(url))

(* C1 as amended: the category of categorize_link(u) is the first          *)
(* applicable of proxy_protocol (the protocol predicate), merge_           *)
(* subscription (the merge predicate), config_file (the config-file        *)
(* predicate), raw_file (the lowercased URL contains the mirror's domain   *)
(* name anywhere, which every URL hosted there does) and other; it is one  *)
(* of the five values, and no later test replaces the category an earlier  *)
(* one assigned.                                                           *)
C1_CategoryByPriority ==
    Categorized =>
        /\ result.category = FirstApplicable(is_proxy_protocol_link(url).is_proxy,
                                             is_merge_subscription_link(url),
                                             is_config_file(url),
                                             NamesRawDomain(url))
        /\ result.category \in CategoryNames
        /\ OnRawDomain(url) => NamesRawDomain(url)
        /\ LET r1 == CheckProxy(NewRecord(url), url)
               r2 == CheckMerge(r1, url)
               r3 == CheckConfig(r2, url)
           IN  /\ r1.category # "other" => result.category = r1.category
               /\ r2.category # "other" => result.category = r2.category
               /\ r3.category # "other" => result.category = r3.category

\* A URL of the mirror to which three tests apply: the first of them names
\* the category.
C1_Witness ==
    /\ Categorized
    /\ ~result.is_proxy_protocol
    /\ result.is_merge_subscription /\ result.is_config_file /\ OnRawDomain(url)
    /\ result.category = "merge_subscription"

---------------------------------------------------------------------------
Filtered == pc \in { "filtered", "ranked" }

Ranked == pc = "ranked"

UrlsOf(rs) == [i \in 1..Len(rs) |-> rs[i].url]

Count(seq, x) == Cardinality({ i \in 1..Len(seq) : seq[i] = x })

\* What the matcher and the categorizer answer for each link of the pool.
PoolRecord == [u \in LinkPool |-> categorize_link(u)]

PoolHighPriority ==
    [u \in LinkPool |-> is_proxy_protocol_link(u).is_proxy \/ is_merge_subscription_link(u)]

CategoryOf(u) == PoolRecord[u].category

\* The links of category c, in the order of the input.
LinksOfCategory(ls, c) == SelectSeq(ls, LAMBDA u : CategoryOf(u) = c)

(* C2: filter_links puts each element of its input, duplicates included,   *)
(* into the one bucket its record's category names: the bucket lengths sum *)
(* to the input's length, no URL is in two buckets, and each bucket keeps  *)
(* the order of the input.                                                 *)
C2_Partition ==
    Filtered =>
        /\ DOMAIN categories = CategoryNames
        /\ \A c \in CategoryNames :
              /\ UrlsOf(categories[c]) = LinksOfCategory(links, c)
              /\ \A k \in 1..Len(categories[c]) :
                    /\ categories[c][k].category = c
                    /\ categories[c][k] = PoolRecord[categories[c][k].url]
        /\ Len(categories["proxy_protocol"]) + Len(categories["merge_subscription"])
             + Len(categories["config_file"]) + Len(categories["raw_file"])
             + Len(categories["other"]) = Len(links)
        /\ \A c1, c2 \in CategoryNames :
              c1 # c2 => Range(UrlsOf(categories[c1])) \cap Range(UrlsOf(categories[c2])) = {}

\* A link twice in the input is twice in its bucket, around a link of
\* another bucket.
C2_Witness ==
    /\ pc = "filtered"
    /\ Len(links) = 3 /\ links[1] = links[3] /\ links[1] # links[2]
    /\ CategoryOf(links[1]) # CategoryOf(links[2])
    /\ Len(categories[CategoryOf(links[1])]) = 2

---------------------------------------------------------------------------
\* The URL is a proxy-protocol link or a merge/subscription link.
IsHighPriorityUrl(u) == PoolHighPriority[u]

(* C3: get_high_priority_links returns the records of exactly the input    *)
(* URLs for which is_proxy_protocol or is_merge_subscription is true, one  *)
(* for every occurrence; a URL that is only a config file, only a raw file *)
(* or other is never returned.                                             *)
C3_ExactlyProxyOrMerge ==
    Ranked =>
        /\ \A u \in Range(links) \cup Range(UrlsOf(high_priority)) :
              Count(UrlsOf(high_priority), u)
                  = IF IsHighPriorityUrl(u) THEN Count(links, u) ELSE 0
        /\ \A k \in 1..Len(high_priority) :
              high_priority[k] = PoolRecord[high_priority[k].url]

\* A config file, a raw file and a link kept twice.
C3_Witness ==
    /\ Ranked
    /\ \E u \in Range(links) : CategoryOf(u) = "config_file"
    /\ \E u \in Range(links) : IsHighPriorityUrl(u) /\ Count(links, u) = 2
    /\ Len(high_priority) = 2

---------------------------------------------------------------------------
\* The rank the specification gives a category.
Rank(c) ==
    CASE c = "proxy_protocol"     -> 1
      [] c = "merge_subscription" -> 2
      [] c = "config_file"        -> 3
      [] OTHER                    -> 4

\* The selected links of one rank, in the order of the input.
SelectedOfRank(ls, k) ==
    SelectSeq(ls, LAMBDA u : IsHighPriorityUrl(u) /\ Rank(CategoryOf(u)) = k)

(* C4: the list get_high_priority_links returns is sorted by the rank      *)
(* proxy_protocol < merge_subscription < config_file < the rest, records   *)
(* of one rank in the order of the input; every proxy_protocol record      *)
(* stands before every merge_subscription record.                          *)
C4_StableByRank ==
    Ranked =>
        /\ \A i, j \in 1..Len(high_priority) :
              i < j => Rank(high_priority[i].category) <= Rank(high_priority[j].category)
        /\ UrlsOf(high_priority) =
              SelectedOfRank(links, 1) \o SelectedOfRank(links, 2)
                \o SelectedOfRank(links, 3) \o SelectedOfRank(links, 4)
        /\ \A i, j \in 1..Len(high_priority) :
              (/\ high_priority[i].category = "proxy_protocol"
               /\ high_priority[j].category = "merge_subscription") => i < j

\* Two different merge links with a proxy link between them: the proxy link
\* comes first, the merge links keep their order.
C4_Witness ==
    /\ Ranked
    /\ Len(links) = 3 /\ links[1] # links[3]
    /\ CategoryOf(links[1]) = "merge_subscription"
    /\ CategoryOf(links[2]) = "proxy_protocol"
    /\ CategoryOf(links[3]) = "merge_subscription"
    /\ UrlsOf(high_priority) = << links[2], links[1], links[3] >>

---------------------------------------------------------------------------
\* The links of the pool with no protocol marker and no merge keyword, and
\* those of them that match no path-shape pattern either.
PoolUnmarked == { u \in LinkPool : ~HasProtocolMarker(u) /\ ~HasMergeKeyword(u) }

PoolUnmatched == { u \in PoolUnmarked : ~MatchesPathShape(u) }

InHighBuckets(r) ==
    r \in Range(categories["proxy_protocol"]) \cup Range(categories["merge_subscription"])

(* C5 as stated: every record get_high_priority_links returns is in the    *)
(* proxy_protocol or the merge_subscription bucket of filter_links on the  *)
(* same input, and the result is empty when no input URL contains a        *)
(* protocol marker or a merge keyword.  It fails: a URL with neither can   *)
(* match a path-shape pattern, as https://example.com/config.txt does.     *)
C5_EmptyWithoutMarkerOrKeyword ==
    Ranked =>
        /\ \A k \in 1..Len(high_priority) : InHighBuckets(high_priority[k])
        /\ Range(links) \subseteq PoolUnmarked => high_priority = << >>

(* C5 as amended: every record get_high_priority_links returns is in the   *)
(* proxy_protocol or the merge_subscription bucket of filter_links on the  *)
(* same input, and the result is empty when no input URL contains a        *)
(* protocol marker or a merge keyword or matches a path-shape pattern.     *)
C5_SubsetOfHighBuckets ==
    Ranked =>
        /\ \A k \in 1..Len(high_priority) : InHighBuckets(high_priority[k])
        /\ Range(links) \subseteq PoolUnmatched => high_priority = << >>

\* Three links, a config file among them, and nothing of high priority.
C5_Witness ==
    /\ Ranked
    /\ Len(links) = 3
    /\ \E u \in Range(links) : CategoryOf(u) = "config_file"
    /\ Range(links) \subseteq PoolUnmatched
    /\ high_priority = << >>

---------------------------------------------------------------------------
(* C6: categorize_link gives "https://raw.githubusercontent.com/u/r/main/  *)
(* all_configs.txt" the category merge_subscription, "https://example.com/ *)
(* readme" the category other, and "vmess://abcd1234" the category         *)
(* proxy_protocol with protocol_type "vmess".  The code answers "ss" for   *)
(* the third: "vmess://" contains "ss://", the first marker of the table.  *)
C6_Scenario ==
    Categorized =>
        /\ url = "https://raw.githubusercontent.com/u/r/main/all_configs.txt"
              => result.category = "merge_subscription"
        /\ url = "https://example.com/readme" => result.category = "other"
        /\ url = "vmess://abcd1234"
              => result.category = "proxy_protocol" /\ result.protocol_type = "vmess"

---------------------------------------------------------------------------
(* C7: is_proxy_protocol_link(u) is true iff the lowercased URL contains   *)
(* one of the nine markers; the protocol_type it then returns is the key   *)
(* of the first entry, in the table's order, one of whose markers the URL  *)
(* contains, wherever in the URL the markers stand.                        *)
C7_FirstEntryInTableOrder ==
    Categorized =>
        LET found == is_proxy_protocol_link(url)
            hits  == { i \in 1..Len(proxy_protocols) :
                         ContainsAny(Lower(url), Range(proxy_protocols[i].patterns)) }
        IN  /\ [i \in 1..Len(proxy_protocols) |-> proxy_protocols[i].protocol] = ProtocolOrder
            /\ found.is_proxy = HasProtocolMarker(url)
            /\ found.is_proxy =>
                  /\ hits # {}
                  /\ found.protocol = ProtocolOrder[CHOOSE i \in hits : \A k \in hits : i <= k]
            /\ ~found.is_proxy => found.protocol = ""

\* trojan:// stands first in the URL, and the earlier table entry wins.
C7_Witness ==
    /\ Categorized
    /\ StartsWith(Lower(url), "trojan://")
    /\ Contains(url, "shadowsocks")
    /\ is_proxy_protocol_link(url).protocol = "shadowsocks"

---------------------------------------------------------------------------
(* C8 as stated: is_config_file(u) is true iff the lowercased URL ends     *)
(* with one of the six extensions, or the URL's host is the raw-content    *)
(* mirror and its last path segment contains a merge keyword or one of     *)
(* config, proxy, node, list.  It fails: the code asks whether the URL     *)
(* names the mirror anywhere, and reads the query string with the name.    *)
C8_ConfigFileByHost ==
    Categorized =>
        is_config_file(url) =
            \/ HasConfigExtension(url)
            \/ OnRawDomain(url) /\ ContainsAny(LastPathSegment(url), ConfigNameKeywords)

(* C8 as amended: is_config_file(u) is true iff the lowercased URL ends    *)
(* with one of the six extensions, or it contains the mirror's domain name *)
(* anywhere and the text after its last '/' (query string and fragment     *)
(* included) contains a merge keyword or one of config, proxy, node, list. *)
C8_ConfigFileBySubstring ==
    Categorized =>
        is_config_file(url) =
            \/ HasConfigExtension(url)
            \/ NamesRawDomain(url)
                 /\ ContainsAny(TextAfterLastSlash(Lower(url)), ConfigNameKeywords)

\* A config file of another host, by the mirror's name in its path.
C8_Witness ==
    /\ Categorized
    /\ get_domain_from_url(url) = "example.com"
    /\ ~HasConfigExtension(url)
    /\ result.is_config_file

---------------------------------------------------------------------------
(* C9: is_merge_subscription_link(u) is true iff the lowercased URL        *)
(* contains one of the eleven merge keywords as a substring or matches one *)
(* of the path-shape regular expressions, and false otherwise.             *)
C9_KeywordOrPathShape ==
    Categorized =>
        /\ Range(merge_keywords) = MergeKeywords
        /\ Cardinality(MergeKeywords) = Len(merge_keywords)
        /\ is_merge_subscription_link(url) = (HasMergeKeyword(url) \/ MatchesPathShape(url))

\* A merge link by its path shape alone.
C9_Witness ==
    /\ Categorized
    /\ ~HasMergeKeyword(url)
    /\ MatchesPathShape(url)
    /\ result.is_merge_subscription

---------------------------------------------------------------------------
(* C10: each flag of the record categorize_link(u) returns equals its own  *)
(* predicate on u, whatever the category; several flags can be true in one *)
(* record.                                                                 *)
C10_FlagsIndependent ==
    Categorized =>
        /\ result.url = url
        /\ result.is_proxy_protocol = is_proxy_protocol_link(url).is_proxy
        /\ result.is_merge_subscription = is_merge_subscription_link(url)
        /\ result.is_config_file = is_config_file(url)

\* All three flags in a record of category proxy_protocol.
C10_Witness ==
    /\ Categorized
    /\ result.category = "proxy_protocol"
    /\ result.is_proxy_protocol /\ result.is_merge_subscription /\ result.is_config_file

---------------------------------------------------------------------------
(* C11: in every record categorize_link returns, protocol_type is the      *)
(* empty string when is_proxy_protocol is false and a key of the protocol  *)
(* table when it is true; the records filter_links collects are the same   *)
(* records.                                                                *)
ProtocolKeys == { proxy_protocols[i].protocol : i \in DOMAIN proxy_protocols }

ProtocolTypeFits(r) ==
    IF r.is_proxy_protocol THEN r.protocol_type \in ProtocolKeys
                           ELSE r.protocol_type = ""

C11_ProtocolTypeFitsFlag ==
    /\ Categorized => ProtocolTypeFits(result)
    /\ Filtered =>
          \A c \in CategoryNames : \A i \in DOMAIN categories[c] :
              ProtocolTypeFits(categories[c][i])

\* A record without the flag whose URL is nonetheless a merge link and a
\* config file, next to the proxy records the other witnesses reach.
C11_Witness ==
    /\ Categorized
    /\ ~result.is_proxy_protocol
    /\ result.protocol_type = ""
    /\ result.is_merge_subscription
    /\ result.is_config_file

---------------------------------------------------------------------------
(* The file cache (github_searcher.py:46-74, source_fetcher.py:31-53).     *)
(* Both classes keep their files in the same directory, the searcher as    *)
(* search_<md5>.json and the fetcher as source_<md5>.html.  A file is its  *)
(* text and the time it was last written.  Time is counted in hours, and a *)
(* repository in a result list is its full name.                           *)

FreshHours == 24

MaxClock == 26

Queries == { "config collector in:name,description" }

\* The repositories a search returned, as search_repositories lists them
\* (the fields used downstream).
Repositories ==
    << [ full_name |-> "o/collector", owner |-> "o", name |-> "collector",
         html_url |-> "https://github.com/o/collector" ],
       [ full_name |-> "p/v2ray-sub", owner |-> "p", name |-> "v2ray-sub",
         html_url |-> "https://github.com/p/v2ray-sub" ],
       [ full_name |-> "q/ss_list", owner |-> "q", name |-> "ss_list",
         html_url |-> "https://github.com/q/ss_list" ] >>

HtmlUrls == { Repositories[i].html_url : i \in DOMAIN Repositories }

\* The one whose cache entry is followed over time.
RepoUrls == { Repositories[1].html_url }

ResultLists == { << >>, <<"o/collector">>, <<"o/collector", "p/v2ray-sub">> }

Documents == { "", "<html>a</html>", "<html>b</html>" }

\* hashlib.md5(x.encode()).hexdigest() of the keys used here.
md5 ==
    [ x \in Queries \cup HtmlUrls |->
        CASE x = "config collector in:name,description" -> "9ef40d7748892fd0bc41e25417830ec4"
          [] x = "https://github.com/o/collector"  -> "e5ae6c4994f58fce84c0dd21112a9909"
          [] x = "https://github.com/p/v2ray-sub"  -> "5757c0b95fe3840f3b10c7a98fb85846"
          [] x = "https://github.com/q/ss_list"    -> "3ef461741049bd6054bc317bb9043117" ]

get_cache_key(x) == md5[x]

SearchFile(cache_key) == "search_" \o cache_key \o ".json"

SourceFile(cache_key) == "source_" \o cache_key \o ".html"

\* json.dump of a list of names and of the cache object.
RECURSIVE DumpItems(_, _)
DumpItems(items, i) ==
    IF i > Len(items) THEN ""
    ELSE (IF i > 1 THEN ", " ELSE "") \o "\"" \o items[i] \o "\"" \o DumpItems(items, i + 1)

json_dump(obj) ==
    "{\"timestamp\": " \o ToString(obj.timestamp)
        \o ", \"results\": [" \o DumpItems(obj.results, 1) \o "]}"

\* json.load: the object whose text this is, or an exception.  The texts
\* of all cache objects are tabulated once.
CacheObjects == [ timestamp : 0..MaxClock, results : ResultLists ]

CacheTexts == [ obj \in CacheObjects |-> json_dump(obj) ]

Raised == [raised |-> TRUE]

json_load(text) ==
    IF \E obj \in CacheObjects : CacheTexts[obj] = text
    THEN [ raised |-> FALSE,
           data   |-> CHOOSE obj \in CacheObjects : CacheTexts[obj] = text ]
    ELSE Raised

\* What a _load_from_cache returns: None, or a payload.
None == [found |-> FALSE]

Some(v) == [found |-> TRUE, value |-> v]

\* Python's truth value of `cached_results` / `cached_content`.
TruthyList(r) == r.found /\ Len(r.value) > 0

TruthyText(r) == r.found /\ r.value # ""

\* dir with file f replaced.
PutFile(dir, f, file) ==
    [ g \in DOMAIN dir \cup {f} |-> IF g = f THEN file ELSE dir[g] ]

GitHubSearcher_load_from_cache(dir, cache_key, t) ==
    LET f == SearchFile(cache_key) IN
    IF f \notin DOMAIN dir THEN None
    ELSE LET loaded == json_load(dir[f].text) IN
         IF loaded.raised THEN None
         ELSE IF t - loaded.data.timestamp < FreshHours
              THEN Some(loaded.data.results)
              ELSE None

GitHubSearcher_save_to_cache(dir, cache_key, query_repos, t) ==
    PutFile(dir, SearchFile(cache_key),
            [ text  |-> json_dump([timestamp |-> t, results |-> query_repos]),
              mtime |-> t ])

SourceFetcher_load_from_cache(dir, cache_key) ==
    LET f == SourceFile(cache_key) IN
    IF f \notin DOMAIN dir THEN None ELSE Some(dir[f].text)

SourceFetcher_save_to_cache(dir, cache_key, content, t) ==
    PutFile(dir, SourceFile(cache_key), [text |-> content, mtime |-> t])

---------------------------------------------------------------------------
(* One run using the cache over time.  The upstream answers are inputs: a  *)
(* search yields the list of repositories that passed the relevance        *)
(* filter, a document request yields the response text, and either can     *)
(* fail.                                                                   *)

Failed == [ok |-> FALSE]

Answer(v) == [ok |-> TRUE, value |-> v]

SearchAnswers == { Failed } \cup { Answer(rs) : rs \in ResultLists }

DocumentAnswers == { Failed } \cup { Answer(d) : d \in Documents }

\* The body that comes with a non-success status.
StatusPage == "<html>404</html>"

\* The ways a request for a page fails: session.get raises, it times out,
\* or the response has a non-success status and raise_for_status raises.
FailedResponses ==
    { [ok |-> FALSE, kind |-> "exception"],
      [ok |-> FALSE, kind |-> "timeout"],
      [ok |-> FALSE, kind |-> "status", value |-> StatusPage] }

\* The clock is read at uneven half days, so that entries of age just
\* under, exactly and just over FreshHours all occur.
TickHours == { 11, 12, 13 }

\* What a call found in the cache before it acted.
Entry(dir, f, t) ==
    IF f \in DOMAIN dir
    THEN [present |-> TRUE, age |-> t - dir[f].mtime]
    ELSE [present |-> FALSE, age |-> 0]

CacheInit ==
    /\ now = 0
    /\ cache_dir = << >>
    /\ call = [op |-> "none"]
    /\ runs = << >>
    /\ OutsideCacheUnused

Tick ==
    /\ \E d \in TickHours :
        /\ now + d <= MaxClock
        /\ now' = now + d
    /\ UNCHANGED <<cache_dir, call, runs>>
    /\ UNCHANGED outsideCache

\* One pass of the query loop of search_repositories.  On a hit no request
\* is made and there is no answer to choose.
SearchQuery ==
    \E query \in Queries, answer \in SearchAnswers :
        LET cache_key == get_cache_key(query)
            cached_results == GitHubSearcher_load_from_cache(cache_dir, cache_key, now)
            entry == Entry(cache_dir, SearchFile(cache_key), now)
        IN
        /\ IF TruthyList(cached_results)
           THEN /\ answer = Failed
                /\ call' = [ op |-> "search", key |-> query, entry |-> entry,
                             requested |-> FALSE, failed |-> FALSE,
                             returned |-> cached_results.value ]
                /\ UNCHANGED cache_dir
           ELSE IF answer.ok
           THEN /\ cache_dir' = GitHubSearcher_save_to_cache(cache_dir, cache_key, answer.value, now)
                /\ call' = [ op |-> "search", key |-> query, entry |-> entry,
                             requested |-> TRUE, failed |-> FALSE,
                             returned |-> answer.value ]
           ELSE /\ call' = [ op |-> "search", key |-> query, entry |-> entry,
                             requested |-> TRUE, failed |-> TRUE,
                             returned |-> << >> ]
                /\ UNCHANGED cache_dir
        /\ UNCHANGED <<now, runs>>
        /\ UNCHANGED outsideCache

\* fetch_repository_source with a second attempt after a failed one.
fetch_repository_source_Retry(dir, repo_url, answer, t) ==
    LET cache_key == get_cache_key(repo_url)
        cached_content == SourceFetcher_load_from_cache(dir, cache_key)
    IN
    IF TruthyText(cached_content)
    THEN [dir |-> dir, requests |-> 0, failed |-> FALSE, returned |-> cached_content.value]
    ELSE IF answer.ok
    THEN [ dir |-> SourceFetcher_save_to_cache(dir, cache_key, answer.value, t),
           requests |-> 1, failed |-> FALSE, returned |-> answer.value ]
    ELSE [dir |-> dir, requests |-> 2, failed |-> TRUE, returned |-> ""]

\* fetch_repository_source saving the response before its status is looked
\* at.
fetch_repository_source_SaveBeforeStatus(dir, repo_url, answer, t) ==
    LET cache_key == get_cache_key(repo_url)
        cached_content == SourceFetcher_load_from_cache(dir, cache_key)
    IN
    IF TruthyText(cached_content)
    THEN [dir |-> dir, requests |-> 0, failed |-> FALSE, returned |-> cached_content.value]
    ELSE IF answer.ok
    THEN [ dir |-> SourceFetcher_save_to_cache(dir, cache_key, answer.value, t),
           requests |-> 1, failed |-> FALSE, returned |-> answer.value ]
    ELSE IF "value" \in DOMAIN answer
    THEN [ dir |-> SourceFetcher_save_to_cache(dir, cache_key, answer.value, t),
           requests |-> 1, failed |-> TRUE, returned |-> "" ]
    ELSE [dir |-> dir, requests |-> 1, failed |-> TRUE, returned |-> ""]

\* What fetch_repository_source does to the cache directory dir and returns,
\* given the answer a request would get: requests counts the session.get
\* calls made, failed tells that the except branch was taken.
fetch_repository_source(dir, repo_url, answer, t) ==
    LET cache_key == get_cache_key(repo_url)
        cached_content == SourceFetcher_load_from_cache(dir, cache_key)
    IN
    IF TruthyText(cached_content)
    THEN [dir |-> dir, requests |-> 0, failed |-> FALSE, returned |-> cached_content.value]
    ELSE IF answer.ok
    THEN [ dir |-> SourceFetcher_save_to_cache(dir, cache_key, answer.value, t),
           requests |-> 1, failed |-> FALSE, returned |-> answer.value ]
    ELSE [dir |-> dir, requests |-> 1, failed |-> TRUE, returned |-> ""]

\* The answer a call draws: none when the cache already answers it.
AnswersFor(dir, repo_url) ==
    IF TruthyText(SourceFetcher_load_from_cache(dir, get_cache_key(repo_url)))
    THEN { Failed }
    ELSE DocumentAnswers \cup FailedResponses

FetchRepositorySource ==
    \E repo_url \in RepoUrls :
    \E answer \in AnswersFor(cache_dir, repo_url) :
        LET fetched == fetch_repository_source(cache_dir, repo_url, answer, now) IN
        /\ cache_dir' = fetched.dir
        /\ call' = [ op |-> "fetch", key |-> repo_url,
                     entry |-> Entry(cache_dir, SourceFile(get_cache_key(repo_url)), now),
                     requested |-> fetched.requests > 0, failed |-> fetched.failed,
                     returned |-> fetched.returned ]
        /\ UNCHANGED <<now, runs>>
        /\ UNCHANGED outsideCache

CacheNext == Tick \/ SearchQuery \/ FetchRepositorySource

SpecCache == CacheInit /\ [][CacheNext]_vars

---------------------------------------------------------------------------
(* C12: a cache entry older than the 24-hour window is a miss and the call *)
(* that finds it makes a fresh upstream request, for a search-result entry *)
(* and for a fetched-document entry alike.                                 *)
Called == call.op # "none"

StaleEntry == call.entry.present /\ call.entry.age > FreshHours

C12_StaleEntryIsMiss == (Called /\ StaleEntry) => call.requested

---------------------------------------------------------------------------
(* C18: a call that finds a present and fresh cache entry for its query or *)
(* its document URL makes no upstream request, whatever payload the entry  *)
(* holds, an empty result list or an empty document included.              *)
FreshEntry == call.entry.present /\ call.entry.age < FreshHours

C18_FreshEntryIsHit == (Called /\ FreshEntry) => ~call.requested

---------------------------------------------------------------------------
(* Two runs sharing the cache directory, step by step.  A run looks its    *)
(* key up, and on a miss asks upstream and saves the answer.  Saving is    *)
(* `with open(cache_file, 'w') as f: f.write(...)`: the open truncates the *)
(* file in place, the buffered writer hands the text to the file a chunk   *)
(* at a time at the writer's own offset, and the close ends it.  A reader  *)
(* reads the text the file holds at that moment.                           *)

RunIds == { 1, 2 }

ChunkSize == 8

\* A byte no writer wrote: what a file holds between its end and the
\* offset of a write beyond it.
Hole == "?"

RECURSIVE Holes(_)
Holes(n) == IF n <= 0 THEN "" ELSE Hole \o Holes(n - 1)

Drop(text, n) == IF n >= Len(text) THEN "" ELSE SubSeq(text, n + 1, Len(text))

\* write(chunk) at offset.
WriteAt(text, offset, chunk) ==
    IF offset >= Len(text)
    THEN text \o Holes(offset - Len(text)) \o chunk
    ELSE SubSeq(text, 1, offset) \o chunk \o Drop(text, offset + Len(chunk))

NextChunk(body, offset) ==
    SubSeq(body, offset + 1,
           IF offset + ChunkSize < Len(body) THEN offset + ChunkSize ELSE Len(body))

RunFile(ro) ==
    IF ro.op = "search" THEN SearchFile(get_cache_key(ro.key))
                        ELSE SourceFile(get_cache_key(ro.key))

NewRun ==
    [ pc |-> "idle", op |-> "none", key |-> "", loaded |-> None,
      body |-> "", offset |-> 0, opened |-> FALSE ]

RaceInit ==
    /\ now = 0
    /\ cache_dir = << >>
    /\ call = << >>
    /\ runs = [r \in RunIds |-> NewRun]
    /\ OutsideCacheUnused

\* The cache lookup that opens a query pass or a fetch_repository_source.
LoadFromCache(r) ==
    /\ runs[r].pc = "idle"
    /\ \E op \in { "search", "fetch" } :
       \E key \in (IF op = "search" THEN Queries ELSE RepoUrls) :
        LET cache_key == get_cache_key(key)
            loaded == IF op = "search"
                      THEN GitHubSearcher_load_from_cache(cache_dir, cache_key, now)
                      ELSE SourceFetcher_load_from_cache(cache_dir, cache_key)
            hit == IF op = "search" THEN TruthyList(loaded) ELSE TruthyText(loaded)
        IN runs' = [runs EXCEPT ![r] =
                      [ pc |-> IF hit THEN "done" ELSE "request",
                        op |-> op, key |-> key, loaded |-> loaded,
                        body |-> "", offset |-> 0, opened |-> FALSE ]]
    /\ UNCHANGED <<now, cache_dir, call>>
    /\ UNCHANGED outsideCache

\* The search, or session.get: an answer to save, or an exception.
Request(r) ==
    /\ runs[r].pc = "request"
    /\ \E answer \in (IF runs[r].op = "search" THEN SearchAnswers ELSE DocumentAnswers) :
        IF answer.ok
        THEN runs' = [runs EXCEPT ![r].pc = "open",
                                  ![r].body =
                                      IF runs[r].op = "search"
                                      THEN json_dump([timestamp |-> now, results |-> answer.value])
                                      ELSE answer.value]
        ELSE runs' = [runs EXCEPT ![r].pc = "done"]
    /\ UNCHANGED <<now, cache_dir, call>>
    /\ UNCHANGED outsideCache

\* _save_to_cache: open(cache_file, 'w').
OpenForWrite(r) ==
    /\ runs[r].pc = "open"
    /\ cache_dir' = PutFile(cache_dir, RunFile(runs[r]), [text |-> "", mtime |-> now])
    /\ runs' = [runs EXCEPT ![r].pc = "write", ![r].offset = 0, ![r].opened = TRUE]
    /\ UNCHANGED <<now, call>>
    /\ UNCHANGED outsideCache

\* _save_to_cache: the next chunk reaches the file.
WriteChunk(r) ==
    /\ runs[r].pc = "write"
    /\ runs[r].offset < Len(runs[r].body)
    /\ LET f == RunFile(runs[r])
           chunk == NextChunk(runs[r].body, runs[r].offset)
       IN /\ cache_dir' = PutFile(cache_dir, f,
                                  [ text  |-> WriteAt(cache_dir[f].text, runs[r].offset, chunk),
                                    mtime |-> now ])
          /\ runs' = [runs EXCEPT ![r].offset = @ + Len(chunk)]
    /\ UNCHANGED <<now, call>>
    /\ UNCHANGED outsideCache

\* _save_to_cache: the end of the `with` block.
CloseFile(r) ==
    /\ runs[r].pc = "write"
    /\ runs[r].offset = Len(runs[r].body)
    /\ runs' = [runs EXCEPT ![r].pc = "done"]
    /\ UNCHANGED <<now, cache_dir, call>>
    /\ UNCHANGED outsideCache

RaceNext ==
    \E r \in RunIds :
        \/ LoadFromCache(r)
        \/ Request(r)
        \/ OpenForWrite(r)
        \/ WriteChunk(r)
        \/ CloseFile(r)

SpecRace == RaceInit /\ [][RaceNext]_vars

---------------------------------------------------------------------------
(* C13: cache entries are written atomically: whatever the interleaving of *)
(* a writer and a reader of one cache file, what the reader's lookup       *)
(* returns is either no entry or a complete entry, that is, a payload some *)
(* writer was given to save, never part of one.                            *)

\* The payloads the writers of run ro's file were given.
PayloadsSaved(ro) ==
    { IF ro.op = "search" THEN json_load(runs[w].body).data.results ELSE runs[w].body :
        w \in { w \in RunIds : /\ runs[w].op = ro.op
                               /\ runs[w].key = ro.key
                               /\ runs[w].opened } }

C13_ReaderSeesWholeEntry ==
    \A r \in RunIds :
        (runs # << >> /\ runs[r].loaded.found) =>
            runs[r].loaded.value \in PayloadsSaved(runs[r])

---------------------------------------------------------------------------
(* The worker pool (source_fetcher.py:79-143).  fetch_and_save_all_sources *)
(* submits one _process_single_repo task per repository to a               *)
(* ThreadPoolExecutor: the work items queue up in submission order and at  *)
(* most max_workers threads take them.  as_completed then yields first the *)
(* futures that had already finished when it was called, in the order of a *)
(* set of them, and after these the others as they finish.  The cache of   *)
(* earlier runs holds the pages of some of the repositories.               *)

MaxWorkers == 2

sources_dir_name == "data/sources"

RECURSIVE Replace(_, _, _)
Replace(s, old, new) ==
    IF s = "" THEN ""
    ELSE (IF CharAt(s, 1) = old THEN new ELSE CharAt(s, 1))
            \o Replace(Drop(s, 1), old, new)

\* The path save_source writes.
SourcePath(repo) ==
    LET safe_name == Replace(Replace(repo.owner \o "_" \o repo.name, "/", "_"), "\\", "_")
    IN sources_dir_name \o "/" \o safe_name \o ".html"

\* What _process_single_repo returns when it has saved the source.
WithSource(repo, filepath, source) ==
    [ full_name |-> repo.full_name, owner |-> repo.owner, name |-> repo.name,
      html_url |-> repo.html_url,
      source_file |-> filepath, source_length |-> Len(source) ]

NewTask == [state |-> "unsubmitted", requests |-> 0, failed |-> FALSE, ret |-> None]

CachedPage == [text |-> "<html>a</html>", mtime |-> 0]

CacheDirs ==
    { [ f \in { SourceFile(get_cache_key(u)) : u \in cached } |-> CachedPage ] :
        cached \in SUBSET HtmlUrls }

PoolInit ==
    /\ pool_pc = "submit"
    /\ repos \in { SubSeq(Repositories, 1, n) : n \in 0..Len(Repositories) }
    /\ max_workers \in 1..MaxWorkers
    /\ tasks = [i \in DOMAIN repos |-> NewTask]
    /\ completed = << >>
    /\ collect_at = 0
    /\ early = {}
    /\ waiting = << >>
    /\ results = << >>
    /\ sources_dir = << >>
    /\ now = 0
    /\ cache_dir \in CacheDirs
    /\ call = << >>
    /\ runs = << >>
    /\ OutsidePoolUnused

InState(st) == { i \in DOMAIN tasks : tasks[i].state = st }

Lowest(S) == CHOOSE i \in S : \A j \in S : i <= j

\* Any number of threads.
WorkerFree_Unbounded == TRUE

\* A thread of the pool is idle, or the pool may still start one.
WorkerFree == Cardinality(InState("running")) < max_workers

\* executor.submit, for the next repository of the list.
Submit ==
    /\ pool_pc = "submit"
    /\ InState("unsubmitted") # {}
    /\ tasks' = [tasks EXCEPT ![Lowest(InState("unsubmitted"))].state = "queued"]
    /\ UNCHANGED <<pool_pc, repos, max_workers, completed, collect_at, early,
                   waiting, results, sources_dir>>
    /\ UNCHANGED <<cacheVars, outsidePool>>

\* A worker thread takes the oldest work item.
StartTask ==
    /\ InState("queued") # {}
    /\ WorkerFree
    /\ tasks' = [tasks EXCEPT ![Lowest(InState("queued"))].state = "running"]
    /\ UNCHANGED <<pool_pc, repos, max_workers, completed, collect_at, early,
                   waiting, results, sources_dir>>
    /\ UNCHANGED <<cacheVars, outsidePool>>

\* _process_single_repo runs and the future gets its result.  The request
\* gets an answer or fails (an error status, a refused connection, the
\* 30 second timeout); writing the source file can fail too.
FinishTask ==
    \E i \in InState("running") :
    \E answer \in AnswersFor(cache_dir, repos[i].html_url) :
    \E save_ok \in BOOLEAN :
        LET fetched  == fetch_repository_source(cache_dir, repos[i].html_url, answer, now)
            source   == fetched.returned
            filepath == SourcePath(repos[i])
        IN
        /\ source = "" => save_ok
        /\ cache_dir' = fetched.dir
        /\ sources_dir' = IF source # "" /\ save_ok
                          THEN PutFile(sources_dir, filepath, source)
                          ELSE sources_dir
        /\ tasks' = [tasks EXCEPT ![i] =
                        [ state    |-> "done",
                          requests |-> fetched.requests,
                          failed   |-> fetched.failed,
                          ret      |-> IF source # "" /\ save_ok
                                       THEN Some(WithSource(repos[i], filepath, source))
                                       ELSE None ]]
        /\ completed' = Append(completed, i)
        /\ waiting' = IF pool_pc = "collect" THEN Append(waiting, i) ELSE waiting
        /\ UNCHANGED <<pool_pc, repos, max_workers, collect_at, early, results>>
        /\ UNCHANGED <<now, call, runs>>
        /\ UNCHANGED outsidePool

\* as_completed is called: every task has been submitted.
BeginCollect ==
    /\ pool_pc = "submit"
    /\ InState("unsubmitted") = {}
    /\ pool_pc' = "collect"
    /\ early' = InState("done")
    /\ collect_at' = Len(completed)
    /\ UNCHANGED <<repos, max_workers, tasks, completed, waiting, results, sources_dir>>
    /\ UNCHANGED <<cacheVars, outsidePool>>

\* The body of the `for ... in as_completed(...)` loop.
Collect(i) ==
    IF tasks[i].ret.found THEN Append(results, tasks[i].ret.value) ELSE results

YieldEarly ==
    /\ pool_pc = "collect"
    /\ \E i \in early :
        /\ early' = early \ {i}
        /\ results' = Collect(i)
    /\ UNCHANGED <<pool_pc, repos, max_workers, tasks, completed, collect_at,
                   waiting, sources_dir>>
    /\ UNCHANGED <<cacheVars, outsidePool>>

YieldFinished ==
    /\ pool_pc = "collect"
    /\ early = {}
    /\ waiting # << >>
    /\ results' = Collect(Head(waiting))
    /\ waiting' = Tail(waiting)
    /\ UNCHANGED <<pool_pc, repos, max_workers, tasks, completed, collect_at,
                   early, sources_dir>>
    /\ UNCHANGED <<cacheVars, outsidePool>>

\* Every future has been yielded; the `with` block ends and the list is
\* returned.
Return ==
    /\ pool_pc = "collect"
    /\ early = {}
    /\ waiting = << >>
    /\ InState("done") = DOMAIN tasks
    /\ pool_pc' = "returned"
    /\ UNCHANGED <<repos, max_workers, tasks, completed, collect_at, early,
                   waiting, results, sources_dir>>
    /\ UNCHANGED <<cacheVars, outsidePool>>

PoolNext ==
    \/ Submit
    \/ StartTask
    \/ FinishTask
    \/ BeginCollect
    \/ YieldEarly
    \/ YieldFinished
    \/ Return

SpecPool == PoolInit /\ [][PoolNext]_vars

---------------------------------------------------------------------------
(* C14: a task whose document request fails or times out makes exactly one *)
(* request and no further attempt; its repository is absent from the list  *)
(* fetch_and_save_all_sources returns; and the other tasks are not         *)
(* affected: the call can always go on until it returns, it returns with   *)
(* every task finished, and every other repository whose task produced a   *)
(* record is in the list once.                                             *)
Returned == pool_pc = "returned"

FailedTasks == { i \in InState("done") : tasks[i].failed }

Reported(i) == { k \in DOMAIN results : results[k].full_name = repos[i].full_name }

C14_FailedFetchIsDropped ==
    /\ \A i \in FailedTasks :
        /\ tasks[i].requests = 1
        /\ Reported(i) = {}
    /\ (pool_pc \in { "submit", "collect" }) => ENABLED PoolNext
    /\ (Returned /\ FailedTasks # {}) =>
        \A j \in DOMAIN tasks :
            /\ tasks[j].state = "done"
            /\ tasks[j].ret.found =>
                /\ Cardinality(Reported(j)) = 1
                /\ \A k \in Reported(j) : results[k] = tasks[j].ret.value

\* The first repository's request failed while the second's task was
\* running; the call returned the second and the third.
C14_Witness ==
    /\ Returned
    /\ Len(repos) = 3
    /\ FailedTasks = {1}
    /\ completed[1] = 2
    /\ Len(results) = 2

---------------------------------------------------------------------------
(* C15 as stated: one task per repository, never more than max_workers     *)
(* running, the call returns only when every task has finished, and the    *)
(* list returned holds every repository whose task produced a record       *)
(* exactly once, in the order the tasks completed.                         *)
Produced(i) == tasks[i].ret.found

ValuesOf(order) == [ k \in DOMAIN order |-> tasks[order[k]].ret.value ]

OneTaskEach ==
    /\ DOMAIN tasks = DOMAIN repos
    /\ \A i \in DOMAIN tasks :
        Cardinality({ k \in DOMAIN completed : completed[k] = i })
            = IF tasks[i].state = "done" THEN 1 ELSE 0

WithinWorkers == Cardinality(InState("running")) <= max_workers

ReturnsWhenAllDone == Returned => InState("done") = DOMAIN tasks

EachProducedOnce ==
    Returned =>
        /\ \A i \in DOMAIN tasks :
            Cardinality(Reported(i)) = IF Produced(i) THEN 1 ELSE 0
        /\ \A i \in DOMAIN tasks : \A k \in Reported(i) : results[k] = tasks[i].ret.value

C15_ResultsInCompletionOrder ==
    /\ OneTaskEach
    /\ WithinWorkers
    /\ ReturnsWhenAllDone
    /\ EachProducedOnce
    /\ Returned => results = ValuesOf(SelectSeq(completed, Produced))

(* C15, amended: the same, except for the order: the repositories whose    *)
(* tasks finished after as_completed was called come last, in the order    *)
(* their tasks completed; those whose tasks had finished before come first *)
(* and in any order.                                                       *)
EarlyTasks == { completed[k] : k \in 1..collect_at }

LateTasks == SubSeq(completed, collect_at + 1, Len(completed))

C15_LateResultsInCompletionOrder ==
    /\ OneTaskEach
    /\ WithinWorkers
    /\ ReturnsWhenAllDone
    /\ EachProducedOnce
    /\ Returned =>
        LET late == ValuesOf(SelectSeq(LateTasks, Produced))
            n    == Len(results) - Len(late)
        IN /\ n >= 0
           /\ SubSeq(results, n + 1, Len(results)) = late
           /\ { results[k] : k \in 1..n }
                = { tasks[i].ret.value : i \in { e \in EarlyTasks : Produced(e) } }

\* Three records returned with both workers used: tasks 1 and 2 had
\* finished, in this order, before as_completed was called and came out as
\* 2, 1; task 3 finished later.
C15_Witness ==
    /\ Returned
    /\ max_workers = 2
    /\ completed = <<1, 2, 3>>
    /\ collect_at = 2
    /\ Len(results) = 3
    /\ results[1].full_name = repos[2].full_name
    /\ results[2].full_name = repos[1].full_name
    /\ results[3].full_name = repos[3].full_name

---------------------------------------------------------------------------
(* Link extraction (src/src/link_extractor.py).  A source file is read as  *)
(* text; the five url_patterns are matched on the raw text the way         *)
(* re.findall does, leftmost first and without overlap; and, for a markup  *)
(* document, the tags are read off the text the way the html.parser tree   *)
(* builder reads well-formed start tags.                                   *)

\* The characters the class of URL characters excludes: white space, angle
\* brackets and the double and single quote.  (It also excludes the grave
\* accent, which no document here contains.)
non_url_chars == " \t\n\r<>\"'"

\* The patterns: a literal head in one of its spellings, a run of URL
\* characters, and for the last two a /raw/ inside the run.
url_patterns ==
    << [heads |-> {"http://", "https://"},          inner |-> ""],
       [heads |-> {"www."},                         inner |-> ""],
       [heads |-> {"raw.githubusercontent.com/"},   inner |-> ""],
       [heads |-> {"github.com/"},                  inner |-> "/raw/"],
       [heads |-> {"gitlab.com/"},                  inner |-> "/raw/"] >>

strip_chars == ".,;:!?)'\""

whitespace == " \t\n\r"

StartsAt(s, i, p) == i + Len(p) - 1 <= Len(s) /\ SubSeq(s, i, i + Len(p) - 1) = p

\* The last position of the run of URL characters that starts at i (i - 1
\* when there is none).
RunEnd(s, i) == FindAny(s, non_url_chars, i) - 1

\* The end of the match of pattern p at position i of the lowered text, 0
\* when it does not match there.  Every repetition is greedy, so a match
\* runs to the end of the run of URL characters.
MatchEnd(p, lowered, i) ==
    IF \E head \in p.heads : StartsAt(lowered, i, head)
    THEN LET head == CHOOSE h \in p.heads : StartsAt(lowered, i, h)
             from == i + Len(head)
             to   == RunEnd(lowered, from)
         IN  IF to < from THEN 0
             ELSE IF p.inner = "" THEN to
             ELSE IF \E k \in (from + 1)..(to - Len(p.inner)) : StartsAt(lowered, k, p.inner)
                  THEN to
                  ELSE 0
    ELSE 0

\* re.findall(pattern, text, re.IGNORECASE), from position i on.
RECURSIVE FindAll(_, _, _, _)
FindAll(p, text, lowered, i) ==
    LET starts == { k \in i..Len(text) : MatchEnd(p, lowered, k) # 0 } IN
    IF starts = {} THEN << >>
    ELSE LET at == Least(starts)
             to == MatchEnd(p, lowered, at)
         IN  <<SubSeq(text, at, to)>> \o FindAll(p, text, lowered, to + 1)

RECURSIVE RStrip(_, _)
RStrip(s, stripped) ==
    IF s # "" /\ Contains(stripped, CharAt(s, Len(s)))
    THEN RStrip(SubSeq(s, 1, Len(s) - 1), stripped)
    ELSE s

Strip(s) == RStrip(LStrip(s, whitespace), whitespace)

\* The mutant of CleanUp: the www. test made on the match, before the
\* punctuation is stripped.
CleanUp_PrefixByMatch(match) ==
    IF StartsWith(match, "www.") THEN "https://" \o RStrip(match, strip_chars)
    ELSE RStrip(match, strip_chars)

\* "Clean up the URL".
CleanUp(match) ==
    LET cleaned == RStrip(match, strip_chars) IN
    IF StartsWith(cleaned, "www.") THEN "https://" \o cleaned ELSE cleaned

\* The regular-expression loop shared by both extractors.
PatternLinks(text) ==
    LET lowered == Lower(text) IN
    UNION { { CleanUp(m[k]) : k \in DOMAIN m } :
            m \in { FindAll(url_patterns[i], text, lowered, 1) : i \in DOMAIN url_patterns } }

extract_links_from_text(text_content) == PatternLinks(text_content)

\* The first position of p in s at or after i, 0 when there is none.
Find(s, p, i) ==
    LET places == { k \in i..(Len(s) - Len(p) + 1) : StartsAt(s, k, p) } IN
    IF places = {} THEN 0 ELSE Least(places)

\* The attributes written in the rest of a start tag: name="value",
\* name='value' or name=value.
RECURSIVE ParseAttrs(_)
ParseAttrs(s) ==
    LET t == LStrip(s, whitespace \o "/") IN
    IF t = "" THEN << >>
    ELSE LET nameEnd == FindAny(t, whitespace \o "=", 1)
             name    == SubSeq(t, 1, nameEnd - 1)
             after   == LStrip(Drop(t, nameEnd - 1), whitespace)
         IN  IF after = "" \/ CharAt(after, 1) # "="
             THEN <<[name |-> Lower(name), value |-> ""]>> \o ParseAttrs(after)
             ELSE LET v == LStrip(Drop(after, 1), whitespace) IN
                  IF v # "" /\ Contains("\"'", CharAt(v, 1))
                  THEN LET close == FindAny(v, CharAt(v, 1), 2) IN
                       <<[name |-> Lower(name), value |-> SubSeq(v, 2, close - 1)]>>
                           \o ParseAttrs(Drop(v, close))
                  ELSE LET stop == FindAny(v, whitespace, 1) IN
                       <<[name |-> Lower(name), value |-> SubSeq(v, 1, stop - 1)]>>
                           \o ParseAttrs(Drop(v, stop - 1))

\* The start tags of the document, in document order.
RECURSIVE StartTags(_, _)
StartTags(html, i) ==
    LET open == Find(html, "<", i) IN
    IF open = 0 THEN << >>
    ELSE LET close == Find(html, ">", open + 1) IN
         IF close = 0 THEN << >>
         ELSE LET inside  == SubSeq(html, open + 1, close - 1)
                  nameEnd == FindAny(inside, whitespace \o "/", 1)
              IN  IF inside = "" \/ ~Contains(LowerChars \o UpperChars, CharAt(inside, 1))
                  THEN StartTags(html, close + 1)
                  ELSE <<[ name  |-> Lower(SubSeq(inside, 1, nameEnd - 1)),
                           attrs |-> ParseAttrs(Drop(inside, nameEnd - 1)) ]>>
                          \o StartTags(html, close + 1)

\* The parser gives up on a marked section <![name ...  whose name is none
\* of those it knows, and BeautifulSoup(...) raises.
marked_sections == { "temp", "cdata", "ignore", "include", "rcdata", "if", "else", "endif" }

ParserRejects(html) ==
    LET at == Find(html, "<![", 1) IN
    /\ at # 0
    /\ LET nameEnd == FindAny(html, whitespace \o "[]<>", at + 3)
       IN  Lower(SubSeq(html, at + 3, nameEnd - 1)) \notin marked_sections

has_attr(tag, attr) == \E k \in DOMAIN tag.attrs : tag.attrs[k].name = attr

\* tag[attr]: of a repeated attribute the last one counts.
AttrValue(tag, attr) ==
    tag.attrs[CHOOSE k \in DOMAIN tag.attrs :
                /\ tag.attrs[k].name = attr
                /\ \A j \in DOMAIN tag.attrs : tag.attrs[j].name = attr => j <= k].value

IsAbsolute(u) == StartsWith(u, "http://") \/ StartsWith(u, "https://")

\* urllib.parse.urljoin for an http(s) base and a reference that has no
\* dot segments, query or fragment.
urljoin(base, u) ==
    LET b   == UrlSplit(base)
        r   == UrlSplit(u)
        dir == SubSeq(b.path, 1, Len(b.path) - Len(LastSegment(b.path)))
    IN  IF r.scheme # "" /\ r.scheme # b.scheme THEN u
        ELSE IF r.netloc # "" THEN b.scheme \o "://" \o r.netloc \o r.path
        ELSE IF StartsWith(r.path, "/") THEN b.scheme \o "://" \o b.netloc \o r.path
        ELSE b.scheme \o "://" \o b.netloc \o (IF dir = "" THEN "/" ELSE dir) \o r.path

\* What the two tag loops add for one attribute value.
AttributeLink(value, base_url) ==
    LET stripped == Strip(value) IN
    IF stripped = "" \/ StartsWith(stripped, "#") THEN {}
    ELSE IF base_url # "" /\ ~IsAbsolute(stripped) THEN { urljoin(base_url, stripped) }
    ELSE { stripped }

url_tags == { "script", "link", "img", "source" }

url_attrs == { "src", "href", "data-src", "content" }

TagLinks(html, base_url) ==
    LET tags == StartTags(html, 1) IN
    UNION { IF tags[k].name = "a" /\ has_attr(tags[k], "href")
            THEN AttributeLink(AttrValue(tags[k], "href"), base_url)
            ELSE IF tags[k].name \in url_tags
            THEN UNION { AttributeLink(AttrValue(tags[k], attr), base_url) :
                         attr \in { a \in url_attrs : has_attr(tags[k], a) } }
            ELSE {} : k \in DOMAIN tags }

\* extract_links_from_html giving up altogether when the parser raises.
extract_links_from_html_NothingOnError(html_content, base_url) ==
    IF ParserRejects(html_content) THEN {}
    ELSE TagLinks(html_content, base_url) \cup PatternLinks(html_content)

extract_links_from_html(html_content, base_url) ==
    (IF ParserRejects(html_content) THEN {} ELSE TagLinks(html_content, base_url))
        \cup PatternLinks(html_content)

LooksLikeHtml(content) ==
    StartsWith(Strip(content), "<!DOCTYPE") \/ StartsWith(Strip(content), "<html")

\* A file is [readable, text]; one that cannot be opened or is not UTF-8 is
\* not readable.  The links are returned as a list made from a set: the
\* set is what is kept here.
extract_links_from_source_file(file) ==
    IF ~file.readable THEN [raised |-> FALSE, links |-> {}]
    ELSE IF LooksLikeHtml(file.text)
    THEN [raised |-> FALSE, links |-> extract_links_from_html(file.text, "")]
    ELSE [raised |-> FALSE, links |-> extract_links_from_text(file.text)]

---------------------------------------------------------------------------
(* The extractor at work on one saved source.  A source is an opening and  *)
(* two fragments, or a file that cannot be read.                           *)

Openings ==
    { "<!DOCTYPE html><html>", "\n<html lang=\"en\">", "<!doctype html><html>", "" }

Fragments ==
    { "<a href=\"/o/r/raw/main/sub.txt\">sub</a>",
      "<a href=\"https://e.com/a.txt\">a</a>",
      "<a href=\" #top\">top</a>",
      "<a name=\"x\" href='vmess://abc'>v</a>",
      "<img src=\"logo.png\" data-src=\"https://e.com/i.png\">",
      "<script src=\"//cdn.e.com/x.js\"></script>",
      "<link rel=stylesheet href=all.yaml content=\"\">",
      "<![bad[ x ]]>",
      "<![CDATA[ x ]]>",
      "see www.e.org/list.",
      "(github.com/o/r/raw/main/v2ray)",
      "gitlab.com/raw/x github.com/o/raw/",
      "HTTPS://Raw.GithubUserContent.com/o/r/main/Sub.TXT,",
      "more at www...",
      "WWW.E.ORG/list?)",
      "" }

Sources ==
    { [readable |-> FALSE, text |-> ""] }
        \cup { [readable |-> TRUE, text |-> o \o f \o " " \o g] :
                 o \in Openings, f \in Fragments, g \in Fragments }

ExtractInit ==
    /\ extract_pc = "idle"
    /\ source_file = [readable |-> TRUE, text |-> ""]
    /\ extracted = [raised |-> FALSE, links |-> {}]
    /\ OutsideExtractUnused

\* links = self.extract_links_from_source_file(repo['source_file']), as
\* extract_links_from_all_sources calls it.
ExtractLinksFromSourceFile ==
    /\ extract_pc = "idle"
    /\ \E file \in Sources :
        /\ source_file' = file
        /\ extracted' = extract_links_from_source_file(file)
    /\ extract_pc' = "extracted"
    /\ UNCHANGED outsideExtract

ExtractNext == ExtractLinksFromSourceFile

SpecExtract == ExtractInit /\ [][ExtractNext]_vars

---------------------------------------------------------------------------
(* C19: when the pipeline extracts the links of a markup document, every   *)
(* href, src, data-src or content value that is not an absolute URL is     *)
(* resolved against the page's URL before it is added, so that no relative *)
(* attribute value is in the document's link set.                          *)
Extracted == extract_pc = "extracted"

ParsedMarkup ==
    /\ source_file.readable
    /\ LooksLikeHtml(source_file.text)
    /\ ~ParserRejects(source_file.text)

\* The values of the attributes the extractor looks at.
AttributeValues(html) ==
    LET tags == StartTags(html, 1) IN
    UNION { { Strip(tags[k].attrs[j].value) :
                j \in { j \in DOMAIN tags[k].attrs :
                          \/ tags[k].name = "a" /\ tags[k].attrs[j].name = "href"
                          \/ tags[k].name \in url_tags /\ tags[k].attrs[j].name \in url_attrs } } :
            k \in DOMAIN tags }

\* Not a URL of its own: no scheme, and not empty or a bare fragment.
IsRelative(v) == v # "" /\ ~StartsWith(v, "#") /\ UrlSplit(v).scheme = ""

C19_NoRelativeAttributeValue ==
    (Extracted /\ ParsedMarkup) =>
        \A v \in AttributeValues(source_file.text) :
            IsRelative(v) => v \notin extracted.links

---------------------------------------------------------------------------
(* C20 as stated: when a source file cannot be read or decoded, or its     *)
(* markup cannot be parsed, the extraction result is empty and no          *)
(* exception reaches the caller.                                           *)
Unreadable == ~source_file.readable

RejectedMarkup ==
    /\ source_file.readable
    /\ LooksLikeHtml(source_file.text)
    /\ ParserRejects(source_file.text)

C20_NothingFromFailedParse ==
    (Extracted /\ (Unreadable \/ RejectedMarkup)) =>
        /\ ~extracted.raised
        /\ extracted.links = {}

(* C20, amended: no exception reaches the caller in either case; the       *)
(* result is empty for a file that cannot be read, and for markup the      *)
(* parser rejects it is what the pattern scan of the raw text gives, the   *)
(* result the same text would have as a plain-text document.               *)
C20_PatternLinksFromRejectedMarkup ==
    /\ (Extracted /\ Unreadable) =>
        /\ ~extracted.raised
        /\ extracted.links = {}
    /\ (Extracted /\ RejectedMarkup) =>
        /\ ~extracted.raised
        /\ extracted.links = extract_links_from_text(source_file.text)
        /\ \A v \in extracted.links :
            \/ Contains(source_file.text, v)
            \/ StartsWith(v, "https://www.") /\ Contains(source_file.text, Drop(v, 8))

\* Rejected markup with a bare address in its text: the address is
\* returned, cleaned up.
C20_Witness ==
    /\ Extracted
    /\ RejectedMarkup
    /\ Contains(source_file.text, "see www.e.org/list.")
    /\ extracted.links = { "https://www.e.org/list" }

(* The report: generate_categorized_output and generate_all_outputs of     *)
(* src/src/output_generator.py, with group_links_by_domain of              *)
(* src/src/proxy_filter.py.                                                *)

\* Every order list(set) can give the members of a set.
Orderings(S) ==
    { f \in [1..Cardinality(S) -> S] : \A i, j \in DOMAIN f : f[i] = f[j] => i = j }

\* group_links_by_domain: records with an empty domain are left out; each
\* group keeps the order of the list.
group_links_by_domain(records) ==
    LET domain_of(i) == get_domain_from_url(records[i].url)
        domains == { domain_of(i) : i \in DOMAIN records } \ {""}
    IN [ d \in domains |-> SelectSeq(records, LAMBDA r : get_domain_from_url(r.url) = d) ]

\* The entry of one repository in the report.
repo_data(repo) ==
    LET categorized_links == filter_links(repo.links)
        high_priority_of  == get_high_priority_links(repo.links)
    IN [ name |-> repo.name, full_name |-> repo.full_name, owner |-> repo.owner,
         html_url |-> repo.html_url,
         links_count |-> Len(repo.links),
         categorized_links |-> [c \in DOMAIN categorized_links |-> UrlsOf(categorized_links[c])],
         high_priority_links |-> UrlsOf(high_priority_of),
         high_priority_count |-> Len(high_priority_of) ]

\* The mutant of ListsRepo: a repository is listed only when it has a
\* high-priority link.
ListsRepo_WithHighPriority(repo) ==
    "links" \in DOMAIN repo /\ get_high_priority_links(repo.links) # << >>

\* The loop's only test: the record carries a 'links' key.
ListsRepo(repo) == "links" \in DOMAIN repo

RECURSIVE GenerateLoop(_, _, _)
GenerateLoop(rs, i, acc) ==
    IF i > Len(rs) THEN acc
    ELSE IF ~ListsRepo(rs[i]) THEN GenerateLoop(rs, i + 1, acc)
    ELSE
        LET repo == rs[i]
            categorized_links == filter_links(repo.links)
            high_priority_of  == get_high_priority_links(repo.links)
        IN GenerateLoop(rs, i + 1,
            [ repositories |-> Append(acc.repositories, repo_data(repo)),
              total_links |-> acc.total_links + Len(repo.links),
              proxy_protocol_links |->
                  acc.proxy_protocol_links + Len(categorized_links["proxy_protocol"]),
              merge_subscription_links |->
                  acc.merge_subscription_links + Len(categorized_links["merge_subscription"]),
              config_files |-> acc.config_files + Len(categorized_links["config_file"]),
              all_links |-> acc.all_links \o repo.links,
              all_proxy_links |-> acc.all_proxy_links \o UrlsOf(high_priority_of) ])

\* The mutant of generate_categorized_output: the summary's high-priority
\* links taken from all the links.
generate_categorized_output_SummaryOfAllLinks(rs) ==
    LET done == GenerateLoop(rs, 1,
                    [ repositories |-> << >>, total_links |-> 0,
                      proxy_protocol_links |-> 0, merge_subscription_links |-> 0,
                      config_files |-> 0, all_links |-> << >>, all_proxy_links |-> << >> ])
        proxies == filter_links(done.all_links)["proxy_protocol"]
        protocols == { proxies[i].protocol_type : i \in DOMAIN proxies }
        domains == group_links_by_domain(
                       [i \in DOMAIN done.all_links |-> categorize_link(done.all_links[i])])
    IN [ metadata |->
            [ total_repositories |-> Len(rs),
              total_links |-> done.total_links,
              proxy_protocol_links |-> done.proxy_protocol_links,
              merge_subscription_links |-> done.merge_subscription_links,
              config_files |-> done.config_files ],
         repositories |-> done.repositories,
         summary |->
            [ by_protocol |->
                [ p \in protocols |->
                    Cardinality({ i \in DOMAIN proxies : proxies[i].protocol_type = p }) ],
              by_domain |-> [ d \in DOMAIN domains |-> Len(domains[d]) ],
              high_priority_links |-> Range(done.all_links) ] ]

\* summary.high_priority_links is list(set(...)): a set here, its order is
\* not the code's to choose.
generate_categorized_output(rs) ==
    LET done == GenerateLoop(rs, 1,
                    [ repositories |-> << >>, total_links |-> 0,
                      proxy_protocol_links |-> 0, merge_subscription_links |-> 0,
                      config_files |-> 0, all_links |-> << >>, all_proxy_links |-> << >> ])
        proxies == filter_links(done.all_links)["proxy_protocol"]
        protocols == { proxies[i].protocol_type : i \in DOMAIN proxies }
        domains == group_links_by_domain(
                       [i \in DOMAIN done.all_links |-> categorize_link(done.all_links[i])])
    IN [ metadata |->
            [ total_repositories |-> Len(rs),
              total_links |-> done.total_links,
              proxy_protocol_links |-> done.proxy_protocol_links,
              merge_subscription_links |-> done.merge_subscription_links,
              config_files |-> done.config_files ],
         repositories |-> done.repositories,
         summary |->
            [ by_protocol |->
                [ p \in protocols |->
                    Cardinality({ i \in DOMAIN proxies : proxies[i].protocol_type = p }) ],
              by_domain |-> [ d \in DOMAIN domains |-> Len(domains[d]) ],
              high_priority_links |-> Range(done.all_proxy_links) ] ]

\* The four files generate_all_outputs writes, in its order.
output_kinds == << "json", "csv", "links", "markdown" >>

\* The four go to one output directory: it takes them all or none.
WriteOutcomes == { {}, { output_kinds[i] : i \in DOMAIN output_kinds } }

\* generate_all_outputs: the report and the files whose write succeeded.
generate_all_outputs(data, unwritten) ==
    [ data |-> data,
      output_files |-> SelectSeq(output_kinds, LAMBDA k : k \notin unwritten) ]

---------------------------------------------------------------------------
(* extract_links_from_all_sources of src/src/link_extractor.py.            *)

links_dir_name == "data/links"

LinksPath(repo) ==
    LET safe_name == Replace(Replace(repo.owner \o "_" \o repo.name, "/", "_"), "\\", "_")
    IN links_dir_name \o "/" \o safe_name \o "_links.txt"

WithLinks(repo, ls) ==
    [ full_name |-> repo.full_name, owner |-> repo.owner, name |-> repo.name,
      html_url |-> repo.html_url,
      source_file |-> repo.source_file, source_length |-> repo.source_length,
      links_file |-> LinksPath(repo), links_count |-> Len(ls), links |-> ls ]

\* What open(source_file) finds in the sources directory.
Opened(dir, path) ==
    IF path \in DOMAIN dir THEN [readable |-> TRUE, text |-> dir[path]]
    ELSE [readable |-> FALSE, text |-> ""]

\* link_lists[i] is the order list(set) gave the links of the i-th
\* repository; unsaved holds those whose links file could not be written.
RECURSIVE ExtractLoop(_, _, _, _, _)
ExtractLoop(rs, i, link_lists, unsaved, acc) ==
    IF i > Len(rs) THEN acc
    ELSE IF "source_file" \notin DOMAIN rs[i]
         THEN ExtractLoop(rs, i + 1, link_lists, unsaved, acc)
    ELSE IF i \in unsaved
         THEN ExtractLoop(rs, i + 1, link_lists, unsaved, acc)
    ELSE ExtractLoop(rs, i + 1, link_lists, unsaved,
                     Append(acc, WithLinks(rs[i], link_lists[i])))

extract_links_from_all_sources(rs, link_lists, unsaved) ==
    ExtractLoop(rs, 1, link_lists, unsaved, << >>)

---------------------------------------------------------------------------
(* main() of src/main.py, stage by stage.                                  *)

\* os.getenv gives None for an unset variable.
Tokens == { [set |-> FALSE, value |-> ""], [set |-> TRUE, value |-> ""],
            [set |-> TRUE, value |-> "ghp_x"] }

\* The mutant of TokenMissing: only an unset variable is refused.
TokenMissing_UnsetOnly(token) == ~token.set

\* not github_token
TokenMissing(token) == ~token.set \/ token.value = ""

\* The pages a repository can have: one with two high-priority links, one
\* with a link of no interest, one without links.
Pages ==
    { "<html><a href=\"vmess://abc\">v</a> https://e.com:8443/sub/all.txt</html>",
      "<html><a href=\"https://E.com/about\">about</a></html>",
      "<html><p>nothing here</p></html>" }

\* No page: the fetch failed, the page was empty or it could not be saved.
NoPage == ""

PageLinks(text) == extract_links_from_source_file([readable |-> TRUE, text |-> text]).links

\* The link sets of the pages, computed once.
PageLinkSets == [ p \in Pages |-> PageLinks(p) ]

\* extract_links_from_source_file on a file of the sources directory, which
\* holds pages only.
LinksOfFile(file) == IF file.readable THEN PageLinkSets[file.text] ELSE {}

\* What extract_links_from_source_file finds for each record.
LinkSets(dir, rs) == [ i \in DOMAIN rs |-> LinksOfFile(Opened(dir, rs[i].source_file)) ]

\* The lists it can return for them: list(set) orders each as it likes.
LinkOrders(found) ==
    { link_lists \in [DOMAIN found -> UNION { Orderings(found[i]) : i \in DOMAIN found }] :
        \A i \in DOMAIN found : Range(link_lists[i]) = found[i] }

MainInit ==
    /\ main_pc = "start"
    /\ github_token \in Tokens
    /\ exit_status = 0
    /\ did = {}
    /\ repositories = << >>
    /\ repos_with_sources = << >>
    /\ repos_with_links = << >>
    /\ links_dir = << >>
    /\ output_data = << >>
    /\ sources_dir = << >>
    /\ OutsideMainUnused

Exit(status) ==
    /\ main_pc' = "exited"
    /\ exit_status' = status

CheckToken ==
    /\ main_pc = "start"
    /\ IF TokenMissing(github_token)
       THEN Exit(1)
       ELSE main_pc' = "search" /\ UNCHANGED exit_status
    /\ UNCHANGED <<github_token, did, repositories, repos_with_sources,
                   repos_with_links, links_dir, output_data, sources_dir>>
    /\ UNCHANGED outsideMain

\* The mutant of SearchRepositories: main goes on with an empty list.
SearchRepositories_GoesOn ==
    /\ main_pc = "search"
    /\ \E n \in 0..Len(Repositories) :
        /\ repositories' = SubSeq(Repositories, 1, n)
        /\ main_pc' = "fetch" /\ UNCHANGED exit_status
    /\ did' = did \cup {"search", "cache"}
    /\ UNCHANGED <<github_token, repos_with_sources, repos_with_links,
                   links_dir, output_data, sources_dir>>
    /\ UNCHANGED outsideMain

\* The searcher works through the cache.  (--resume reads the progress file
\* and prints it; nothing later uses what it read.)
SearchRepositories ==
    /\ main_pc = "search"
    /\ \E n \in 0..Len(Repositories) :
        /\ repositories' = SubSeq(Repositories, 1, n)
        /\ IF n = 0 THEN Exit(0)
           ELSE main_pc' = "fetch" /\ UNCHANGED exit_status
    /\ did' = did \cup {"search", "cache"}
    /\ UNCHANGED <<github_token, repos_with_sources, repos_with_links,
                   links_dir, output_data, sources_dir>>
    /\ UNCHANGED outsideMain

\* Each repository's task gives its page or none; the records come back in
\* an order the pool chooses.
FetchAndSaveAllSources ==
    /\ main_pc = "fetch"
    /\ \E pages \in [DOMAIN repositories -> Pages \cup {NoPage}] :
        LET fetched == { i \in DOMAIN repositories : pages[i] # NoPage }
        IN \E order \in Orderings(fetched) :
            /\ sources_dir' =
                 [ path \in { SourcePath(repositories[i]) : i \in fetched } |->
                     pages[CHOOSE i \in fetched : SourcePath(repositories[i]) = path] ]
            /\ repos_with_sources' =
                 [ k \in DOMAIN order |->
                     WithSource(repositories[order[k]],
                                SourcePath(repositories[order[k]]), pages[order[k]]) ]
            /\ IF fetched = {} THEN Exit(0)
               ELSE main_pc' = "extract" /\ UNCHANGED exit_status
    /\ did' = did \cup {"fetch", "cache", "save_source"}
    /\ UNCHANGED <<github_token, repositories, repos_with_links, links_dir,
                   output_data>>
    /\ UNCHANGED outsideMain

ExtractLinksFromAllSources ==
    /\ main_pc = "extract"
    /\ \E link_lists \in LinkOrders(LinkSets(sources_dir, repos_with_sources)) :
       \E unsaved \in SUBSET DOMAIN repos_with_sources :
        /\ repos_with_links' =
              extract_links_from_all_sources(repos_with_sources, link_lists, unsaved)
        /\ links_dir' =
              [ path \in { LinksPath(repos_with_sources[i]) :
                              i \in DOMAIN repos_with_sources \ unsaved } |->
                  link_lists[CHOOSE i \in DOMAIN repos_with_sources :
                                 LinksPath(repos_with_sources[i]) = path] ]
        /\ IF repos_with_links' = << >> THEN Exit(0)
           ELSE main_pc' = "generate" /\ UNCHANGED exit_status
    /\ did' = did \cup {"extract"}
    /\ UNCHANGED <<github_token, repositories, repos_with_sources, output_data,
                   sources_dir>>
    /\ UNCHANGED outsideMain

GenerateAllOutputs ==
    /\ main_pc = "generate"
    /\ \E data \in {generate_categorized_output(repos_with_links)} :
       \E unwritten \in WriteOutcomes :
        output_data' = generate_all_outputs(data, unwritten)
    /\ did' = did \cup {"output"}
    /\ main_pc' = "summary"
    /\ UNCHANGED <<github_token, exit_status, repositories, repos_with_sources,
                   repos_with_links, links_dir, sources_dir>>
    /\ UNCHANGED outsideMain

\* Writing output/summary.json is not guarded: its failure reaches main's
\* handler, which exits with status 1.
SaveSummary ==
    /\ main_pc = "summary"
    /\ \E written \in BOOLEAN :
        IF written
        THEN did' = did \cup {"summary", "save_progress"} /\ Exit(0)
        ELSE did' = did /\ Exit(1)
    /\ UNCHANGED <<github_token, repositories, repos_with_sources,
                   repos_with_links, links_dir, output_data, sources_dir>>
    /\ UNCHANGED outsideMain

MainNext ==
    \/ CheckToken
    \/ SearchRepositories
    \/ FetchAndSaveAllSources
    \/ ExtractLinksFromAllSources
    \/ GenerateAllOutputs
    \/ SaveSummary

SpecMain == MainInit /\ [][MainNext]_vars

(* What main() lets through.                                               *)

FullNames(rs) == [ k \in DOMAIN rs |-> rs[k].full_name ]

Listed == output_data.data.repositories

\* The repositories the fetch stage left without a source file.
Sourceless ==
    { repositories[i].full_name :
        i \in { j \in DOMAIN repositories :
                  SourcePath(repositories[j]) \notin DOMAIN sources_dir } }

\* A repository without a source file is in no later list.
SourcelessOmitted ==
    /\ "fetch" \in did =>
         /\ Range(FullNames(repos_with_sources)) =
              Range(FullNames(repositories)) \ Sourceless
         /\ Len(repos_with_sources) = Cardinality(Range(FullNames(repos_with_sources)))
    /\ Range(FullNames(repos_with_links)) \cap Sourceless = {}
    /\ "output" \in did => Range(FullNames(Listed)) \cap Sourceless = {}

\* Only main's own handler ends a run with status 1: at the token test, or
\* once the report is made.
NeverAborted == exit_status = 1 => (did = {} \/ "output" \in did)

\* C16, as stated: a repository with no fetched source, with no extracted
\* links or with no high-priority links is in neither the extraction result
\* list nor the report's repositories list, and none of these cases aborts
\* the run.
C16_EmptyHandedOmitted ==
    /\ SourcelessOmitted
    /\ \A k \in DOMAIN repos_with_links : repos_with_links[k].links # << >>
    /\ "output" \in did =>
         \A k \in DOMAIN Listed :
            Listed[k].links_count > 0 /\ Listed[k].high_priority_count > 0
    /\ NeverAborted

\* C16, amended: a repository with no fetched source is in no later list;
\* every repository whose links file was written is in the extraction
\* result list, once and in order, whatever the number of its links; the
\* report lists those repositories one for one, with the counts of links
\* and of high-priority links they have, zero included; and none of these
\* cases aborts the run.
C16_OnlySourcelessOmitted ==
    /\ SourcelessOmitted
    /\ "extract" \in did =>
         FullNames(repos_with_links) =
           FullNames(SelectSeq(repos_with_sources,
                               LAMBDA r : LinksPath(r) \in DOMAIN links_dir))
    /\ \A k \in DOMAIN repos_with_links :
         /\ repos_with_links[k].links = links_dir[repos_with_links[k].links_file]
         /\ Range(repos_with_links[k].links) =
              PageLinkSets[sources_dir[repos_with_links[k].source_file]]
    /\ "output" \in did =>
         /\ FullNames(Listed) = FullNames(repos_with_links)
         /\ \A k \in DOMAIN Listed :
              /\ Listed[k].links_count = Len(repos_with_links[k].links)
              /\ Listed[k].high_priority_count = Len(Listed[k].high_priority_links)
              /\ Range(Listed[k].high_priority_links) \subseteq
                   Range(repos_with_links[k].links)
    /\ NeverAborted

\* A finished run of three repositories: one had no source, one no links,
\* one only a link of no interest; the report lists the last two.
C16_Witness ==
    /\ main_pc = "exited"
    /\ exit_status = 0
    /\ "summary" \in did
    /\ Len(repositories) = 3
    /\ Cardinality(Sourceless) = 1
    /\ Len(Listed) = 2
    /\ \E j, k \in DOMAIN Listed :
         /\ Listed[j].links_count = 0
         /\ Listed[k].links_count > 0
         /\ Listed[k].high_priority_count = 0

\* C17: with GITHUB_TOKEN unset or empty the run does nothing but exit with
\* status 1: no search, no cache access, no fetch, no extraction, no file.
C17_NoTokenNoWork ==
    (~github_token.set \/ github_token.value = "") =>
        /\ main_pc \in {"start", "exited"}
        /\ main_pc = "exited" => exit_status = 1
        /\ did = {}
        /\ repositories = << >>
        /\ repos_with_sources = << >>
        /\ repos_with_links = << >>
        /\ sources_dir = << >>
        /\ links_dir = << >>
        /\ output_data = << >>

\* The run with an empty GITHUB_TOKEN has ended.
C17_Witness ==
    /\ github_token = [set |-> TRUE, value |-> ""]
    /\ main_pc = "exited"
    /\ exit_status = 1

(* The regular-expression matches and what becomes of them.                *)

\* Every match of every pattern in the text.
Matches(text) ==
    UNION { Range(FindAll(url_patterns[i], text, Lower(text), 1)) : i \in DOMAIN url_patterns }

IsPunctuation(c) == Contains(strip_chars, c)

\* The match without its trailing punctuation: the shortest prefix after
\* which only punctuation follows.
WithoutTrailingPunctuation(m) ==
    LET n == CHOOSE k \in 0..Len(m) :
                /\ \A j \in (k + 1)..Len(m) : IsPunctuation(CharAt(m, j))
                /\ k > 0 => ~IsPunctuation(CharAt(m, k))
    IN SubSeq(m, 1, n)

PlainText == extract_pc = "extracted" /\ source_file.readable /\ ~LooksLikeHtml(source_file.text)

\* C21, as stated: every match is added without its trailing punctuation,
\* and with https:// before it when the match begins with www.
C21_MatchCleanedAndPrefixed ==
    extract_pc = "extracted" /\ source_file.readable =>
        \A m \in Matches(source_file.text) :
            (IF StartsWith(m, "www.") THEN "https://" ELSE "")
                \o WithoutTrailingPunctuation(m) \in extracted.links

\* C21, amended: every match is added without its trailing punctuation, and
\* with https:// before it when what is left still begins with a lower-case
\* www.; in a plain-text source nothing else is added.
C21_CleanedThenPrefixed ==
    LET Added(m) == LET u == WithoutTrailingPunctuation(m) IN
                    IF StartsWith(u, "www.") THEN "https://" \o u ELSE u
    IN
    /\ extract_pc = "extracted" /\ source_file.readable =>
         \A m \in Matches(source_file.text) : Added(m) \in extracted.links
    /\ PlainText =>
         extracted.links = { Added(m) : m \in Matches(source_file.text) }
    /\ extract_pc = "extracted" =>
         \A u \in extracted.links :
            (\E m \in Matches(source_file.text) : u = Added(m)) =>
                u = "" \/ ~IsPunctuation(CharAt(u, Len(u)))

\* A plain text with a www. address ending a sentence and a bare "www...":
\* the first is added with https://, the second as "www".
C21_Witness ==
    /\ PlainText
    /\ "www.e.org/list." \in Matches(source_file.text)
    /\ "www..." \in Matches(source_file.text)
    /\ extracted.links = { "https://www.e.org/list", "www" }

(* The corpus summary.                                                     *)

Summary == output_data.data.summary

\* The places of the links in the repositories' link lists.
LinkPlaces ==
    UNION { { <<k, j>> : j \in DOMAIN repos_with_links[k].links } :
            k \in DOMAIN repos_with_links }

LinkAt(place) == repos_with_links[place[1]].links[place[2]]

\* urlparse(url).hostname, lower-cased: the network location without the
\* user information before the last @ and without the port after the colon.
HostOf(u) ==
    LET netloc   == UrlSplit(u).netloc
        ats      == { k \in 1..Len(netloc) : CharAt(netloc, k) = "@" }
        hostinfo == IF ats = {} THEN netloc
                    ELSE SubSeq(netloc, (CHOOSE k \in ats : \A j \in ats : j <= k) + 1,
                                Len(netloc))
    IN Lower(SubSeq(hostinfo, 1, FindAny(hostinfo, ":", 1) - 1))

ProxyPlaces ==
    { place \in LinkPlaces : categorize_link(LinkAt(place)).category = "proxy_protocol" }

\* by_protocol counts the proxy-protocol records of all the link lists by
\* their protocol_type.
ByProtocolCounts ==
    LET types == { categorize_link(LinkAt(place)).protocol_type : place \in ProxyPlaces }
    IN /\ DOMAIN Summary.by_protocol = types
       /\ \A p \in types :
            Summary.by_protocol[p] =
              Cardinality({ place \in ProxyPlaces :
                              categorize_link(LinkAt(place)).protocol_type = p })

\* C22, as stated: by_protocol counts the proxy-protocol records of all the
\* link lists by protocol_type; by_domain counts all the links by their
\* lower-cased host; a link without a host is counted under no domain.
C22_SummaryCounts ==
    "output" \in did =>
        /\ ByProtocolCounts
        /\ LET hosts == { HostOf(LinkAt(place)) : place \in LinkPlaces } \ {""}
           IN /\ DOMAIN Summary.by_domain = hosts
              /\ \A d \in hosts :
                   Summary.by_domain[d] =
                     Cardinality({ place \in LinkPlaces : HostOf(LinkAt(place)) = d })

\* The URLs of a repository's link list that are high-priority: those whose
\* record is a proxy-protocol link or a merge/subscription link.
HighPriorityOf(k) ==
    { u \in Range(repos_with_links[k].links) :
        categorize_link(u).is_proxy_protocol \/ categorize_link(u).is_merge_subscription }

\* C23: the summary's high_priority_links holds, once each, exactly the URLs
\* of the repositories' own high-priority lists, which are the high-priority
\* URLs of their link lists; each repository's high_priority_count is the
\* length of its high_priority_links.
C23_GlobalHighPrioritySet ==
    "output" \in did =>
        /\ Summary.high_priority_links =
             UNION { Range(Listed[k].high_priority_links) : k \in DOMAIN Listed }
        /\ \A k \in DOMAIN Listed :
             /\ Range(Listed[k].high_priority_links) = HighPriorityOf(k)
             /\ Listed[k].high_priority_count = Len(Listed[k].high_priority_links)
             /\ Listed[k].high_priority_count = Cardinality(HighPriorityOf(k))

\* Two repositories list the same two high-priority URLs, a third one a
\* link that is not high-priority: the summary holds the two URLs.
C23_Witness ==
    /\ "output" \in did
    /\ \E j, k \in DOMAIN Listed :
         /\ j # k
         /\ Listed[j].high_priority_count = 2
         /\ Range(Listed[j].high_priority_links) = Range(Listed[k].high_priority_links)
    /\ \E k \in DOMAIN Listed :
         Listed[k].links_count = 1 /\ Listed[k].high_priority_count = 0
    /\ Cardinality(Summary.high_priority_links) = 2

---------------------------------------------------------------------------
(* The files of a run: save_source of src/src/source_fetcher.py and the    *)
(* links file of extract_links_from_all_sources, for two repositories of   *)
(* one search result.  The worker tasks save their sources in any order;   *)
(* the extractor then takes the records in turn.                           *)

\* Logins and repository names as the search service gives them.  A login
\* of a managed user ends in an underscore and its enterprise's short code.
Logins == { "alice", "alice_acme", "bob-dev" }

RepoNames == { "x", "acme_x", "ss_list" }

Descriptor(login, repo_name) ==
    [ full_name |-> login \o "/" \o repo_name, owner |-> login, name |-> repo_name,
      html_url |-> "https://github.com/" \o login \o "/" \o repo_name ]

Catalogue == { Descriptor(login, repo_name) : login \in Logins, repo_name \in RepoNames }

\* The page of a repository names the repository.
PageOf(repo) == "<html>" \o repo.html_url \o "</html>"

\* search_repositories returns each repository once.
SaveInit ==
    /\ main_pc = "fetch"
    /\ github_token = [set |-> TRUE, value |-> "ghp_x"]
    /\ exit_status = 0
    /\ did = {"search", "cache"}
    /\ \E a, b \in Catalogue : a # b /\ repositories = <<a, b>>
    /\ repos_with_sources = << >>
    /\ repos_with_links = << >>
    /\ links_dir = << >>
    /\ output_data = << >>
    /\ sources_dir = << >>
    /\ OutsideMainUnused

\* The task of one repository: the page fetched, save_source, the record.
SaveSource ==
    /\ main_pc = "fetch"
    /\ \E i \in DOMAIN repositories :
        /\ \A k \in DOMAIN repos_with_sources :
              repos_with_sources[k].full_name # repositories[i].full_name
        /\ sources_dir' = PutFile(sources_dir, SourcePath(repositories[i]),
                                  PageOf(repositories[i]))
        /\ repos_with_sources' =
              Append(repos_with_sources,
                     WithSource(repositories[i], SourcePath(repositories[i]),
                                PageOf(repositories[i])))
    /\ main_pc' = IF Len(repos_with_sources') = Len(repositories) THEN "extract" ELSE "fetch"
    /\ did' = did \cup {"fetch", "save_source"}
    /\ UNCHANGED <<github_token, exit_status, repositories, repos_with_links,
                   links_dir, output_data>>
    /\ UNCHANGED outsideMain

\* One turn of the extractor's loop: the source file read, the links
\* written to the links file, the record.
WriteLinks ==
    /\ main_pc = "extract"
    /\ LET repo == repos_with_sources[Len(repos_with_links) + 1]
       IN \E found \in Orderings(extract_links_from_source_file(
                                    Opened(sources_dir, repo.source_file)).links) :
            /\ links_dir' = PutFile(links_dir, LinksPath(repo), found)
            /\ repos_with_links' = Append(repos_with_links, WithLinks(repo, found))
    /\ main_pc' = IF Len(repos_with_links') = Len(repos_with_sources)
                  THEN "generate" ELSE "extract"
    /\ did' = did \cup {"extract"}
    /\ UNCHANGED <<github_token, exit_status, repositories, repos_with_sources,
                   output_data, sources_dir>>
    /\ UNCHANGED outsideMain

SaveNext ==
    \/ SaveSource
    \/ WriteLinks

SpecSave == SaveInit /\ [][SaveNext]_vars

\* C24: two repositories of a run are saved under different paths: no
\* source file and no links file is written for two of them, and each
\* record's source file holds the page, each links file the links, of the
\* repository of the record.
C24_DistinctPaths ==
    /\ \A j, k \in DOMAIN repos_with_sources :
         j # k => repos_with_sources[j].source_file # repos_with_sources[k].source_file
    /\ \A k \in DOMAIN repos_with_sources :
         sources_dir[repos_with_sources[k].source_file] = PageOf(repos_with_sources[k])
    /\ \A j, k \in DOMAIN repos_with_links :
         j # k => repos_with_links[j].links_file # repos_with_links[k].links_file
    /\ \A k \in DOMAIN repos_with_links :
         /\ links_dir[repos_with_links[k].links_file] = repos_with_links[k].links
         /\ repos_with_links[k].links = << repos_with_links[k].html_url >>

\* The files of the document cache.
SourceFiles == { SourceFile(get_cache_key(u)) : u \in RepoUrls }

Written(f) == f \in DOMAIN cache_dir' /\ (f \notin DOMAIN cache_dir \/ cache_dir'[f] # cache_dir[f])

\* C25: a fetch that fails (an exception, a timeout, a non-success status)
\* leaves the cache directory as it was; a document entry is written only
\* by a fetch whose request succeeded, and holds the document of that
\* response, so that no entry ever holds what came with a failed request.
C25_FailedFetchLeavesCache ==
    [][ /\ (call'.op = "fetch" /\ call'.failed) => cache_dir' = cache_dir
        /\ \A f \in SourceFiles :
             Written(f) =>
                /\ call'.op = "fetch" /\ call'.requested /\ ~call'.failed
                /\ cache_dir'[f].text = call'.returned
        /\ \A f \in SourceFiles \cap DOMAIN cache_dir' :
             cache_dir'[f].text \in Documents ]_vars

\* A fetch found an entry it could not use, made its request and failed:
\* the entry is still there.
C25_Witness ==
    /\ call.op = "fetch"
    /\ call.requested
    /\ call.failed
    /\ call.entry.present
    /\ \E f \in SourceFiles \cap DOMAIN cache_dir : cache_dir[f].text = ""

\* The kinds of work of the stages, in the order of main().
StageWork ==
    << {"search"}, {"fetch", "save_source"}, {"extract"}, {"output"},
       {"summary", "save_progress"} >>

\* The stages that have done something.
Started == { s \in DOMAIN StageWork : StageWork[s] \cap did # {} }

\* The run ended at stage s with status 0 and no later stage did anything:
\* no report, no summary.json, no progress.json.
ReturnedAfter(s) ==
    /\ main_pc = "exited"
    /\ exit_status = 0
    /\ Started = 1..s
    /\ output_data = << >>
    /\ s < 3 => repos_with_links = << >> /\ links_dir = << >>
    /\ s < 2 => repos_with_sources = << >> /\ sources_dir = << >>

\* C26: the stages run in the order search, fetch, extract, generate
\* outputs, summary and progress, none before the one before it has given a
\* list that is not empty; when search, fetch or extraction gives an empty
\* list the run ends there with status 0.
C26_StagesInOrder ==
    /\ \E s \in 0..Len(StageWork) : Started = 1..s
    /\ 2 \in Started => repositories # << >>
    /\ 3 \in Started => repos_with_sources # << >>
    /\ 4 \in Started => repos_with_links # << >>
    /\ 5 \in Started => output_data # << >>
    /\ (1 \in Started /\ repositories = << >>) => ReturnedAfter(1)
    /\ (2 \in Started /\ repos_with_sources = << >>) => ReturnedAfter(2)
    /\ (3 \in Started /\ repos_with_links = << >>) => ReturnedAfter(3)

\* Three repositories were found and no source could be fetched: the run
\* has ended after the fetch stage.
C26_Witness ==
    /\ Len(repositories) = 3
    /\ "fetch" \in did
    /\ repos_with_sources = << >>
    /\ ReturnedAfter(2)

===========================================================================
